---------------------------- MODULE Spec2Model ----------------------------
(***************************************************************************)
(* A model of the Chess Unwinnability Analyzer (CHA, miguel-ambrona/       *)
(* D3-Chess): the pre-image table (util.cpp), the knight-distance table    *)
(* (util.cpp), the semi-static saturation (semistatic.cpp) and the dynamic *)
(* helpmate search with its orchestrators (dynamic.cpp, dynamic.h).        *)
(*                                                                         *)
(* The chess rule engine (Stockfish: Position, MoveList<LEGAL>, do_move,   *)
(* the transposition table) is external to the repository.  The board      *)
(* level parts (unmove, knight distance, saturate) are modelled on the     *)
(* real 8x8 board; the search level parts are modelled over an explicit    *)
(* legal-move graph whose nodes stand for positions.                       *)
(***************************************************************************)
EXTENDS Integers, Sequences, FiniteSets, TLC

VARIABLES
    \* ---- UTIL::unmove harness (util.cpp:39-54)
    umArgs,          \* the arguments (p, c, s) of the call
    presquares,      \* the output array Square presquares[8]
    \* ---- KnightDistance (util.cpp:156-171)
    KnightDistanceTable,  \* static int KnightDistanceTable[4096]
    kdInited,        \* KnightDistance::init() has run
    kdArgs,          \* the arguments (x, y) of the last get
    kdGot,           \* the value returned by the get (-1: none yet)
    \* ---- SemiStatic::System (semistatic.h:53-69, semistatic.cpp:43-231)
    board,           \* pos.piece_on: the position handed to saturate
    variables,       \* bool variables[N_VARS], as the set of the true indices
    satPc,           \* where saturate stands: "idle", "loop", "done"
    satK,            \* the loop index k over the occupied squares
    change,          \* the flag 'change' of the saturation loop
    passes,          \* the passes of the loop: their number, and the
                     \* variables at the start of the current one
    \* ---- the helpmate search (dynamic.cpp, dynamic.h, cha.cpp:104-131)
    game,            \* the legal-move graph around the input position
    inputPos,        \* the position of the input line (a node of game)
    pos,             \* the Position object: the node it stands on
    states,          \* the positions played through since the input line
    search,          \* static DYNAMIC::Search search
    TT,              \* the transposition table
    pc,              \* where the running analysis stands ("idle": none runs)
    frame,           \* the locals of the running analysis
    ret,             \* what each analysis returned for the input line
    \* ---- the command line interface (cha.cpp:33-67)
    inputLine,       \* the input line handed to parse_line
    parsed,          \* what parse_line did: the FEN it set, the colour returned
    dead,            \* the run of CHA::is_dead: its position, stage and value
    \* ---- calls of single functions on given arguments
    ndCall,          \* find_mate's depth adjustment (dynamic.cpp:234-252)
    oracle           \* System::is_unwinnable on the saturated position

boardVars == <<umArgs, presquares, KnightDistanceTable, kdInited, kdArgs, kdGot>>

satVars == <<board, variables, satPc, satK, change, passes>>

searchVars == <<game, inputPos, pos, states, search, TT, pc, frame, ret>>

cliVars == <<inputLine, parsed, dead>>

fnVars == <<ndCall, oracle>>

vars == <<boardVars, satVars, searchVars, cliVars, fnVars>>

---------------------------------------------------------------------------
(* Squares, colours and piece kinds, as Stockfish numbers them.            *)

SQ_A1 == 0
SQ_H8 == 63
Squares == SQ_A1..SQ_H8

WHITE == 0
BLACK == 1
Colors == {WHITE, BLACK}
Opp(c) == 1 - c

NO_PIECE_TYPE == 0
PAWN == 1
KNIGHT == 2
BISHOP == 3
ROOK == 4
QUEEN == 5
KING == 6
PieceTypes == PAWN..KING

file_of(s) == s % 8
rank_of(s) == s \div 8

Abs(x) == IF x < 0 THEN -x ELSE x
Min2(a, b) == IF a < b THEN a ELSE b
Max2(a, b) == IF a < b THEN b ELSE a

\* The C++ remainder truncates towards zero: (-1) % 8 = -1.
CRem(a, b) == IF a >= 0 THEN a % b ELSE -((-a) % b)

---------------------------------------------------------------------------
(* util.cpp: the pre-image table.                                          *)

NONE == 128

PAWN_INCS == <<-8, -7, -9, NONE, NONE, NONE, NONE, NONE>>
KNIGHT_INCS == <<17, 15, 10, 6, -6, -10, -15, -17>>
BISHOP_INCS == <<9, 7, -7, -9, NONE, NONE, NONE, NONE>>
ROOK_INCS == <<8, 1, -1, -8, NONE, NONE, NONE, NONE>>
QUEEN_INCS == <<9, 8, 7, 1, -1, -7, -8, -9>>
KING_INCS == <<9, 8, 7, 1, -1, -7, -8, -9>>

INCREMENTS == <<PAWN_INCS, KNIGHT_INCS, BISHOP_INCS, ROOK_INCS, QUEEN_INCS, KING_INCS>>

\* A plausible slip: only the board's ends are tested, not the file wrap.
overflow_noWrap(source, target) == target < SQ_A1 \/ target > SQ_H8

overflow(source, target) ==
    \/ Abs(CRem(source, 8) - CRem(target, 8)) > 2
    \/ target < SQ_A1
    \/ target > SQ_H8

\* The candidates prev = s + direction * INCREMENTS[p-1][j], j = 0..7, in order.
UnmoveCandidates(p, c, s) ==
    LET direction == IF c = WHITE THEN 1 ELSE -1
    IN  [j \in 1..8 |-> s + direction * INCREMENTS[p][j]]

\* presquares after the call: the candidates that do not overflow, in the
\* order of j, then -1 up to index 7.
RECURSIVE UnmoveFill(_, _, _, _)
UnmoveFill(cands, s, j, acc) ==
    IF j > 8
    THEN acc \o [k \in 1..(8 - Len(acc)) |-> -1]
    ELSE IF overflow(s, cands[j])
         THEN UnmoveFill(cands, s, j + 1, acc)
         ELSE UnmoveFill(cands, s, j + 1, Append(acc, cands[j]))

unmove(p, c, s) == UnmoveFill(UnmoveCandidates(p, c, s), s, 1, <<>>)

\* semistatic.h:71-74, System::index: (p-1) * 2^13 + (c << 12 | source << 6 | target);
\* the three fields do not overlap, so the bitwise or is a sum.
index(p, c, source, target) == (p - 1) * 8192 + c * 4096 + source * 64 + target

\* semistatic.cpp:22-41, System::init: equations[index(p,c,s,t)][j].
Equation(p, c, s, t, j) ==
    LET pre == unmove(p, c, t)[j + 1]
    IN  IF pre < 0 THEN -1 ELSE index(p, c, s, pre)

UnmoveIdle ==
    /\ umArgs = [p |-> PAWN, c |-> WHITE, s |-> SQ_A1]
    /\ presquares = <<>>

UnmoveInit ==
    /\ umArgs \in [p : PieceTypes, c : Colors, s : Squares]
    /\ presquares = <<>>

UnmoveCall ==
    /\ presquares = <<>>
    /\ presquares' = unmove(umArgs.p, umArgs.c, umArgs.s)
    /\ UNCHANGED umArgs

---------------------------------------------------------------------------
(* util.cpp: the knight distance.                                          *)

is_corner(s) == s \in {0, 7, 56, 63}

FileDistance(x, y) == Abs(file_of(x) - file_of(y))
RankDistance(x, y) == Abs(rank_of(x) - rank_of(y))

\* A plausible slip: the exceptional corner cases are forgotten.
knight_distance_noCorner(x, y) ==
    LET first == Min2(FileDistance(x, y), RankDistance(x, y))
        second == Max2(FileDistance(x, y), RankDistance(x, y))
    IN  IF first % 2 = second % 2
        THEN IF first = 0 /\ second = 0 THEN 0
             ELSE IF <<first, second>> \in {<<0, 2>>, <<0, 4>>, <<2, 4>>, <<1, 1>>, <<1, 3>>, <<3, 3>>}
                  THEN 2
                  ELSE IF first = 7 /\ second = 7 THEN 6 ELSE 4
        ELSE IF second = 7 THEN 5
             ELSE IF first = 1 /\ second = 2 THEN 1
                  ELSE IF first = 5 /\ second = 6 THEN 5 ELSE 3

knight_distance(x, y) ==
    LET first == Min2(FileDistance(x, y), RankDistance(x, y))
        second == Max2(FileDistance(x, y), RankDistance(x, y))
    IN  IF first = 1 /\ second = 1 /\ (is_corner(x) \/ is_corner(y)) THEN 4
        ELSE IF first % 2 = second % 2
        THEN IF first = 0 /\ second = 0 THEN 0
             ELSE IF first = 0 /\ second = 2 THEN 2
             ELSE IF first = 0 /\ second = 4 THEN 2
             ELSE IF first = 2 /\ second = 4 THEN 2
             ELSE IF first = 1 /\ second = 1 THEN 2
             ELSE IF first = 1 /\ second = 3 THEN 2
             ELSE IF first = 3 /\ second = 3 THEN 2
             ELSE IF first = 7 /\ second = 7 THEN 6
             ELSE 4
        ELSE IF second = 7 THEN 5
             ELSE IF first = 1 /\ second = 2 THEN 1
             ELSE IF first = 5 /\ second = 6 THEN 5
             ELSE 3

\* util.cpp:158-160, index(x, y) = int(x) | (y << 6); x < 64, so the or is a sum.
kdIndex(x, y) == x + y * 64

\* The specifications that do not read the table leave it out of the state.
KnightIdle ==
    /\ KnightDistanceTable = <<>>
    /\ kdInited = FALSE
    /\ kdArgs = <<SQ_A1, SQ_A1>>
    /\ kdGot = -1

\* The static table is zero-initialised before KnightDistance::init runs.
KnightStart ==
    /\ KnightDistanceTable = [i \in 0..4095 |-> 0]
    /\ kdInited = FALSE
    /\ kdArgs = <<SQ_A1, SQ_A1>>
    /\ kdGot = -1

KnightDistanceInit ==
    /\ ~kdInited
    /\ KnightDistanceTable' =
          [i \in 0..4095 |-> knight_distance(i % 64, i \div 64)]
    /\ kdInited' = TRUE
    /\ UNCHANGED <<kdArgs, kdGot>>

KnightDistanceGet ==
    /\ kdInited
    /\ kdGot = -1
    /\ \E x \in Squares, y \in Squares :
          /\ kdArgs' = <<x, y>>
          /\ kdGot' = KnightDistanceTable[kdIndex(x, y)]
    /\ UNCHANGED <<KnightDistanceTable, kdInited>>

---------------------------------------------------------------------------
(* semistatic.h, semistatic.cpp: the saturation of the Boolean system.     *)

N_MOVE_VARS == 49152
N_PROM_VARS == 128
N_CLEAR_VARS == 128
N_REACH_VARS == 128
N_VARS == 49664

color_square_index(c, s) == c * 64 + s
clear_index(c, s) == N_MOVE_VARS + N_PROM_VARS + color_square_index(c, s)
reach_index(c, s) == N_MOVE_VARS + N_PROM_VARS + N_CLEAR_VARS + color_square_index(c, s)
capture_index(c, s) ==
    N_MOVE_VARS + N_PROM_VARS + N_CLEAR_VARS + N_REACH_VARS + color_square_index(c, s)

\* Stockfish's Piece: type in the low three bits, colour in bit 3; 0 is NO_PIECE.
MakePiece(c, p) == c * 8 + p
type_of(piece) == piece % 8
color_of(piece) == piece \div 8

\* The squares that hold a piece, in the order of the scan a1..h8 (occupied[0..n-1]).
Occupied(b) == {s \in Squares : type_of(b[s]) # NO_PIECE_TYPE}

RECURSIVE SortedSeq(_)
SortedSeq(S) ==
    IF S = {} THEN <<>>
    ELSE LET m == CHOOSE x \in S : \A y \in S : x <= y
         IN  <<m>> \o SortedSeq(S \ {m})

\* Position::attackers_to(s) of the rule engine: the squares whose piece attacks s
\* with the board's occupancy (sliders stop at the first piece).
Between(a, b) ==
    LET df == file_of(b) - file_of(a)
        dr == rank_of(b) - rank_of(a)
        n == Max2(Abs(df), Abs(dr))
        sf == IF df > 0 THEN 1 ELSE IF df < 0 THEN -1 ELSE 0
        sr == IF dr > 0 THEN 1 ELSE IF dr < 0 THEN -1 ELSE 0
    IN  {a + k * (sr * 8 + sf) : k \in 1..(n - 1)}

Attacks(b, a, s) ==
    LET p == type_of(b[a])
        c == color_of(b[a])
        df == file_of(s) - file_of(a)
        dr == rank_of(s) - rank_of(a)
        diag == Abs(df) = Abs(dr) /\ df # 0
        line == (df = 0 \/ dr = 0) /\ a # s
        free == \A m \in Between(a, s) : type_of(b[m]) = NO_PIECE_TYPE
    IN  CASE p = PAWN -> Abs(df) = 1 /\ dr = (IF c = WHITE THEN 1 ELSE -1)
          [] p = KNIGHT -> {Abs(df), Abs(dr)} = {1, 2}
          [] p = BISHOP -> diag /\ free
          [] p = ROOK -> line /\ free
          [] p = QUEEN -> (diag \/ line) /\ free
          [] p = KING -> Max2(Abs(df), Abs(dr)) = 1
          [] OTHER -> FALSE

attackers_to(b, s) == {a \in Occupied(b) : Attacks(b, a, s)}

\* semistatic.cpp:47-71: every variable false, then Clear of the empty squares
\* and of the other colour, and X(s->s) of the occupied squares.
SaturateInitVars(b) ==
    {clear_index(c, s) : c \in Colors, s \in Squares \ Occupied(b)}
      \cup {clear_index(Opp(color_of(b[s])), s) : s \in Occupied(b)}
      \cup {index(type_of(b[s]), color_of(b[s]), s, s) : s \in Occupied(b)}

\* A plausible slip: Clear(c, source) without the test that it is still
\* false, so that every pass over a piece that can leave sets 'change'.
UpdateClear_again(V, ch, b, source) ==
    LET p == type_of(b[source])
        c == color_of(b[source])
        can == \E aux \in Squares \ {source} :
                  \/ index(p, c, source, aux) \in V
                  \/ /\ type_of(b[aux]) # NO_PIECE_TYPE
                     /\ index(type_of(b[aux]), Opp(c), aux, source) \in V
    IN  IF can
        THEN <<V \cup {clear_index(c, source)}, TRUE>>
        ELSE <<V, ch>>

\* semistatic.cpp:88-101: Clear(c, source).  The result is <<variables, change>>.
UpdateClear(V, ch, b, source) ==
    LET p == type_of(b[source])
        c == color_of(b[source])
        can == \E aux \in Squares \ {source} :
                  \/ index(p, c, source, aux) \in V
                  \/ /\ type_of(b[aux]) # NO_PIECE_TYPE
                     /\ index(type_of(b[aux]), Opp(c), aux, source) \in V
    IN  IF can /\ clear_index(c, source) \notin V
        THEN <<V \cup {clear_index(c, source)}, TRUE>>
        ELSE <<V, ch>>

\* semistatic.cpp:107-119: Reach and Capture of the targets the piece moves to.
UpdateReachCapture(V, ch, b, source) ==
    LET p == type_of(b[source])
        c == color_of(b[source])
        targets == {t \in Squares : index(p, c, source, t) \in V}
        new == {reach_index(c, t) : t \in {u \in targets : p # KING}}
                 \cup {capture_index(c, t) : t \in {u \in targets : p # PAWN}}
    IN  <<V \cup new, ch \/ (new \ V # {})>>

\* semistatic.cpp:165-193: the pawn on source pushes onto the opposing pawn on
\* target of its file; TRUE when the two pawns are confronting.
\* The test without the captures on the squares between the two pawns.
Confronting_noCapture(V, c, source, target) ==
    ~ \E aux \in Squares :
         /\ file_of(source) # file_of(aux)
         /\ \/ index(PAWN, c, source, aux) \in V
            \/ index(PAWN, Opp(c), target, aux) \in V

Confronting(V, c, source, target) ==
    ~ \E aux \in Squares :
         IF file_of(source) # file_of(aux)
         THEN \/ index(PAWN, c, source, aux) \in V
              \/ index(PAWN, Opp(c), target, aux) \in V
         ELSE /\ \/ rank_of(source) < rank_of(aux) /\ rank_of(aux) <= rank_of(target)
                 \/ rank_of(source) > rank_of(aux) /\ rank_of(aux) >= rank_of(target)
              /\ capture_index(c, aux) \in V

\* semistatic.cpp:146-211: the loop over the eight disjuncts of equation i.
\* The result is <<variables, change>>.
RECURSIVE UpdateMoveDisjuncts(_, _, _, _, _, _)
UpdateMoveDisjuncts(V, ch, b, source, target, j) ==
    LET p == type_of(b[source])
        c == color_of(b[source])
        i == index(p, c, source, target)
        var == IF j <= 7 THEN Equation(p, c, source, target, j) ELSE -1
    IN  IF j > 7 \/ var < 0 \/ i \in V
        THEN <<V, ch>>
        ELSE IF var \notin V
        THEN UpdateMoveDisjuncts(V, ch, b, source, target, j + 1)
        ELSE IF p = PAWN /\ j = 0 /\ clear_index(Opp(c), target) \notin V
        THEN UpdateMoveDisjuncts(V, ch, b, source, target, j + 1)
        ELSE IF /\ p = PAWN /\ j = 0
                /\ type_of(b[target]) = PAWN /\ color_of(b[target]) # c
                /\ file_of(source) = file_of(target)
                /\ Confronting(V, c, source, target)
        THEN UpdateMoveDisjuncts(V, ch, b, source, target, j + 1)
        ELSE IF p = PAWN /\ j > 0 /\ reach_index(Opp(c), target) \notin V
        THEN UpdateMoveDisjuncts(V, ch, b, source, target, j + 1)
        ELSE IF p = PAWN /\ j > 0
        THEN <<V \cup {capture_index(c, target), i}, TRUE>>
        ELSE <<V \cup {i}, TRUE>>

\* semistatic.cpp:123-212: the body of the loop over the targets, for one
\* target.
UpdateMove(V, ch, b, source, target) ==
    LET p == type_of(b[source])
        c == color_of(b[source])
        attacked ==
            /\ p = KING
            /\ \E sq \in attackers_to(b, target) :
                  color_of(b[sq]) = Opp(c) /\ clear_index(Opp(c), sq) \notin V
    IN  IF clear_index(c, target) \notin V \/ attacked
        THEN <<V, ch>>
        ELSE UpdateMoveDisjuncts(V, ch, b, source, target, 0)

\* semistatic.cpp:123: the loop over the targets, in the order a1..h8.
RECURSIVE UpdateMoves(_, _, _, _, _)
UpdateMoves(V, ch, b, source, target) ==
    IF target > SQ_H8
    THEN <<V, ch>>
    ELSE LET r == UpdateMove(V, ch, b, source, target)
         IN  IF r[1] = V
             THEN UpdateMoves(V, ch, b, source, target + 1)
             ELSE UpdateMoves(r[1], r[2], b, source, target + 1)

\* semistatic.cpp:216-227: a pawn that can promote may go everywhere.
UpdatePromotion(V, ch, b, source) ==
    LET p == type_of(b[source])
        c == color_of(b[source])
        prom_rank == IF c = WHITE THEN 56 ELSE SQ_A1
        all == {index(p, c, source, SQ_A1) + j : j \in 0..63}
    IN  IF p = PAWN /\ \E file \in 0..7 : index(p, c, source, prom_rank + file) \in V
        THEN <<V \cup all, ch \/ (all \ V # {})>>
        ELSE <<V, ch>>

\* A plausible slip: the confronting-pawn rule written as an assignment of
\* false to the push of the opposing pawn of the file onto this pawn.
SaturatePiece_withdraw(V, ch, b, source) ==
    LET r1 == UpdateClear(V, ch, b, source)
        r2 == UpdateReachCapture(r1[1], r1[2], b, source)
        r3 == UpdateMoves(r2[1], r2[2], b, source, SQ_A1)
        r4 == UpdatePromotion(r3[1], r3[2], b, source)
        blocked == {index(PAWN, color_of(b[u]), u, source) : u \in
                      {u \in Squares \ {source} :
                          /\ type_of(b[source]) = PAWN
                          /\ type_of(b[u]) = PAWN
                          /\ color_of(b[u]) # color_of(b[source])
                          /\ file_of(u) = file_of(source)}}
    IN  <<r4[1] \ blocked, r4[2]>>

\* semistatic.cpp:79-228: the body of the loop over k for one occupied square.
SaturatePiece(V, ch, b, source) ==
    LET r1 == UpdateClear(V, ch, b, source)
        r2 == UpdateReachCapture(r1[1], r1[2], b, source)
        r3 == UpdateMoves(r2[1], r2[2], b, source, SQ_A1)
    IN  UpdatePromotion(r3[1], r3[2], b, source)

\* A position as the rule engine holds it: piece_on for every square.
Place(pieces) ==
    [s \in Squares |->
        IF \E x \in pieces : x[1] = s
        THEN (CHOOSE x \in pieces : x[1] = s)[2]
        ELSE 0]

\* The positions saturate is run on: those of the README and of the program's
\* tests (blocked bishops, the blocked helpmate, a pawn ending, bare kings, two
\* knights), and small positions with confronting pawns, a capture that leaves
\* the file, a promotion, and a fortress of locked pawns.
SaturatePositions ==
    { \* 7b/1k5B/7b/8/1p1p1p1p/1PpP1P1P/2P3K1/N7
      Place({<<0, 2>>, <<10, 1>>, <<14, 6>>, <<17, 1>>, <<18, 9>>, <<19, 1>>,
             <<21, 1>>, <<23, 1>>, <<25, 9>>, <<27, 9>>, <<29, 9>>, <<31, 9>>,
             <<47, 11>>, <<49, 14>>, <<55, 3>>, <<63, 11>>}),
      \* Bb2kb2/bKp1p1p1/1pP1P1P1/pP6/6P1/P7/8/8
      Place({<<16, 1>>, <<30, 1>>, <<32, 9>>, <<33, 1>>, <<41, 9>>, <<42, 1>>,
             <<44, 1>>, <<46, 1>>, <<48, 11>>, <<49, 6>>, <<50, 9>>, <<52, 9>>,
             <<54, 9>>, <<56, 3>>, <<57, 11>>, <<60, 14>>, <<61, 11>>}),
      \* 8/4K2k/4P2p/8/3b1q2/8/8/8
      Place({<<27, 11>>, <<29, 13>>, <<44, 1>>, <<47, 9>>, <<52, 6>>, <<55, 14>>}),
      \* 4k3/8/4K3/8/8/8/8/8
      Place({<<44, 6>>, <<60, 14>>}),
      \* 8/8/8/4k3/8/8/8/NNK5
      Place({<<0, 2>>, <<1, 2>>, <<2, 6>>, <<36, 14>>}),
      \* 4k3/8/8/4p3/4P3/8/8/4K3
      Place({<<4, 6>>, <<28, 1>>, <<36, 9>>, <<60, 14>>}),
      \* 4k3/8/8/3pp3/4P3/8/8/4K3
      Place({<<4, 6>>, <<28, 1>>, <<35, 9>>, <<36, 9>>, <<60, 14>>}),
      \* 4k3/P7/8/8/8/8/8/4K3
      Place({<<4, 6>>, <<48, 1>>, <<60, 14>>}),
      \* 8/8/8/1k6/p1p1p1p1/P1P1P1P1/8/1K3B2
      Place({<<1, 6>>, <<5, 3>>, <<16, 1>>, <<18, 1>>, <<20, 1>>, <<22, 1>>,
             <<24, 9>>, <<26, 9>>, <<28, 9>>, <<30, 9>>, <<33, 14>>}) }

NoPasses == [n |-> 0, from |-> {}]

SaturateIdle ==
    /\ board = Place({})
    /\ variables = {}
    /\ satPc = "idle"
    /\ satK = 0
    /\ change = FALSE
    /\ passes = NoPasses

\* SYSTEM is a static object: its variables are all false at program start.
SaturateStart ==
    /\ board \in SaturatePositions
    /\ variables = {}
    /\ satPc = "idle"
    /\ satK = 0
    /\ change = FALSE
    /\ passes = NoPasses

\* semistatic.cpp:45-77: the call, its initialisation, and the entry of the
\* first pass (change = true; while (change) { change = false; ...).
SaturateBegin ==
    /\ satPc \in {"idle", "done"}
    /\ variables' = SaturateInitVars(board)
    /\ satPc' = "loop"
    /\ satK' = 0
    /\ change' = FALSE
    /\ passes' = [n |-> 1, from |-> SaturateInitVars(board)]
    /\ UNCHANGED board

\* semistatic.cpp:79-228: one turn of the loop over k.
SaturateStep ==
    /\ satPc = "loop"
    /\ satK < Cardinality(Occupied(board))
    /\ LET r == SaturatePiece(variables, change, board,
                              SortedSeq(Occupied(board))[satK + 1])
       IN  /\ variables' = r[1]
           /\ change' = r[2]
    /\ satK' = satK + 1
    /\ UNCHANGED <<board, satPc, passes>>

\* A plausible slip: an 'if' for the 'while', so that saturate returns after
\* the first pass.
SaturatePassEnd_once ==
    /\ satPc = "loop"
    /\ satK = Cardinality(Occupied(board))
    /\ satPc' = "done"
    /\ UNCHANGED <<satK, change, passes, board, variables>>

\* semistatic.cpp:76-77, 230: the end of a pass: another pass, or return.
SaturatePassEnd ==
    /\ satPc = "loop"
    /\ satK = Cardinality(Occupied(board))
    /\ IF change
       THEN /\ satK' = 0
            /\ change' = FALSE
            /\ passes' = [n |-> passes.n + 1, from |-> variables]
            /\ UNCHANGED satPc
       ELSE /\ satPc' = "done"
            /\ UNCHANGED <<satK, change, passes>>
    /\ UNCHANGED <<board, variables>>

---------------------------------------------------------------------------
(* dynamic.cpp, dynamic.h: the helpmate search.  A position is a node of   *)
(* the legal-move graph 'game'; the rule engine's answers about a position *)
(* (its legal moves, the side to move, check, material) are read from the  *)
(* graph.                                                                  *)

\* ---- The material tests computed on a board (dynamic.cpp:80-114).
DarkSquares == {s \in Squares : (file_of(s) + rank_of(s)) % 2 = 0}
pieces(b, c) == {s \in Occupied(b) : color_of(b[s]) = c}
pieces_of(b, types) == {s \in Occupied(b) : type_of(b[s]) \in types}
count(b, c, pt) == Cardinality(pieces(b, c) \cap pieces_of(b, {pt}))

\* The first rule without its test that the winner has two pieces.
NeedLoserPromotion_onlyKnights(b, winner) ==
    /\ pieces(b, winner) \cap pieces_of(b, {KNIGHT}) # {}
    /\ pieces(b, Opp(winner)) \cap pieces_of(b, {KNIGHT, BISHOP, ROOK}) = {}

\* dynamic.cpp:80-98.
NeedLoserPromotion(b, winner) ==
    LET minorPieces == pieces_of(b, {KNIGHT, BISHOP})
        bishopsColor ==
            IF DarkSquares \cap pieces(b, winner) \cap pieces_of(b, {BISHOP})
                   # {}
            THEN DarkSquares ELSE Squares \ DarkSquares
    IN  \/ /\ Cardinality(pieces(b, winner)) = 2
           /\ count(b, winner, KNIGHT) = 1
           /\ Cardinality(pieces(b, Opp(winner))
                          \cap (minorPieces \cup pieces_of(b, {ROOK}))) = 0
        \/ /\ Cardinality(pieces(b, winner)) = count(b, winner, BISHOP) + 1
           /\ Cardinality((Squares \ bishopsColor)
                          \cap pieces_of(b, {BISHOP})) = 0
           /\ Cardinality(pieces(b, Opp(winner))
                          \cap pieces_of(b, {KNIGHT})) = 0

\* dynamic.cpp:107-114.
ImpossibleToWin(b, winner) ==
    \/ Cardinality(pieces(b, winner)) = 1
    \/ /\ Cardinality(pieces(b, Opp(winner)) \cap pieces_of(b, {PAWN})) = 0
       /\ NeedLoserPromotion(b, winner)

\* 8/8/8/4k3/8/8/8/NNK5, and the same after the king has taken a knight.
KNNvK == Place({<<0, 2>>, <<1, 2>>, <<2, 6>>, <<36, 14>>})
KNvK == Place({<<0, 2>>, <<2, 6>>, <<9, 14>>})

\* What the material of the boards (one per position) tells the search.
BareOf(boards, c) ==
    {p \in 1..Len(boards) : Cardinality(pieces(boards[p], c)) = 1}
PawnlessOf(boards, c) ==
    {p \in 1..Len(boards) :
        pieces(boards[p], c) \cap pieces_of(boards[p], {PAWN}) = {}}
NlpOf(boards, winner) ==
    {p \in 1..Len(boards) : NeedLoserPromotion(boards[p], winner)}
KnightsVsKing ==
    <<KNNvK, KNNvK, KNNvK, KNNvK, KNvK, KNNvK, KNNvK, KNNvK, KNvK>>

Scenarios ==
    {
      \* king and two knights against the bare king: a mate five plies away
      \* with Black's help; Black can also take a knight
      [name |-> "TwoKnights",
       stm |-> <<0, 1, 1, 0, 0, 1, 0, 1, 1>>,
       moves |-> <<<<<<2, "quiet">>, <<3, "king">>>>,
                   <<<<4, "approach">>, <<5, "capture">>>>,
                   <<<<4, "king">>>>, <<<<6, "quiet">>>>,
                   <<<<9, "quiet">>>>, <<<<7, "approach">>>>,
                   <<<<8, "quiet">>>>, <<>>, <<>>>>,
       check |-> {8}, kingcap |-> {},
       bare |-> <<BareOf(KnightsVsKing, WHITE), BareOf(KnightsVsKing, BLACK)>>,
       pawnless |-> <<PawnlessOf(KnightsVsKing, WHITE),
                      PawnlessOf(KnightsVsKing, BLACK)>>,
       nlp |-> <<NlpOf(KnightsVsKing, WHITE), NlpOf(KnightsVsKing, BLACK)>>,
       orc |-> <<{}, {}>>,
       KRQ |-> 2, blocked |-> 0, lonely |-> FALSE, knights |-> TRUE,
       semi |-> {}, bishops2 |-> FALSE, roots |-> {1}],
      \* a forced move, then a mate in one next to a quiet line; a forced mate
      [name |-> "ForcedThenMate",
       stm |-> <<0, 1, 0, 0, 1, 0, 1>>,
       moves |-> <<<<<<2, "quiet">>>>, <<<<4, "quiet">>, <<3, "quiet">>>>,
                   <<>>, <<<<5, "king">>>>,
                   <<<<6, "king">>, <<3, "capture">>>>, <<>>,
                   <<<<3, "capture">>>>>>,
       check |-> {1, 3}, kingcap |-> {},
       bare |-> <<{}, {}>>, pawnless |-> <<{}, {5, 6}>>,
       nlp |-> <<{4, 5, 6}, {}>>, orc |-> <<{}, {}>>,
       KRQ |-> 2, blocked |-> 0, lonely |-> FALSE, knights |-> FALSE,
       semi |-> {}, bishops2 |-> FALSE, roots |-> {1, 2, 4, 5, 7}],
      \* a mate two plies away behind a longer line that the move order tries first
      [name |-> "ShortBehindLong",
       stm |-> <<0, 1, 1, 0, 0>>,
       moves |-> <<<<<<2, "quiet">>, <<3, "quiet">>>>, <<<<4, "quiet">>>>,
                   <<<<5, "quiet">>>>, <<<<3, "quiet">>>>, <<>>>>,
       check |-> {5}, kingcap |-> {},
       bare |-> <<{}, {}>>, pawnless |-> <<{}, {}>>,
       nlp |-> <<{}, {}>>, orc |-> <<{}, {}>>,
       KRQ |-> 2, blocked |-> 0, lonely |-> FALSE, knights |-> FALSE,
       semi |-> {}, bishops2 |-> FALSE, roots |-> {1, 2}],
      \* a forced cycle of four moves (a repetition) with a side entrance
      [name |-> "ForcedCycle",
       stm |-> <<0, 1, 0, 1, 0, 1>>,
       moves |-> <<<<<<2, "king">>>>, <<<<3, "king">>>>, <<<<4, "king">>>>,
                   <<<<1, "king">>>>, <<<<6, "quiet">>, <<4, "quiet">>>>,
                   <<<<1, "king">>, <<3, "king">>>>>>,
       check |-> {2, 6}, kingcap |-> {},
       bare |-> <<{}, {}>>, pawnless |-> <<{}, {}>>,
       nlp |-> <<{}, {}>>, orc |-> <<{1, 2, 3, 4}, {5}>>,
       KRQ |-> 0, blocked |-> 2, lonely |-> FALSE, knights |-> FALSE,
       semi |-> {}, bishops2 |-> FALSE, roots |-> {1, 5, 6}],
      \* a mate some plies away, with rewarded and punished moves on the way
      [name |-> "DeepMate",
       stm |-> <<0, 1, 1, 0, 0, 1, 0>>,
       moves |-> <<<<<<2, "quiet">>, <<3, "capture">>>>,
                   <<<<4, "king">>, <<5, "quiet">>>>, <<<<4, "approach">>>>,
                   <<<<6, "quiet">>>>, <<<<6, "push">>>>,
                   <<<<7, "quiet">>, <<1, "king">>>>, <<>>>>,
       check |-> {7}, kingcap |-> {},
       bare |-> <<{}, {}>>, pawnless |-> <<{}, {}>>,
       nlp |-> <<{}, {1, 5}>>, orc |-> <<{}, {}>>,
       KRQ |-> 2, blocked |-> 0, lonely |-> FALSE, knights |-> FALSE,
       semi |-> {}, bishops2 |-> FALSE, roots |-> {1, 2, 6}],
      \* one move into a subtree the oracle knows dead, the other moves open
      [name |-> "DeadBranch",
       stm |-> <<0, 1, 1, 1, 0, 0, 1, 0>>,
       moves |-> <<<<<<2, "capture">>, <<3, "quiet">>, <<4, "quiet">>>>,
                   <<<<5, "king">>>>, <<<<6, "quiet">>>>,
                   <<<<6, "king">>, <<5, "capture">>>>, <<>>,
                   <<<<7, "quiet">>>>, <<<<8, "quiet">>, <<1, "quiet">>>>,
                   <<>>>>,
       check |-> {8}, kingcap |-> {},
       bare |-> <<{}, {}>>, pawnless |-> <<{}, {}>>,
       nlp |-> <<{}, {}>>, orc |-> <<{3}, {2}>>,
       KRQ |-> 2, blocked |-> 0, lonely |-> FALSE, knights |-> FALSE,
       semi |-> {}, bishops2 |-> FALSE, roots |-> {1, 3, 4}],
      \* White has the bare king; a forced cycle and a forced stalemate
      [name |-> "BareKing",
       stm |-> <<0, 1, 0, 1, 0, 1, 0, 1, 0, 1, 0, 1, 0>>,
       moves |-> <<<<<<2, "king">>, <<4, "king">>>>, <<<<3, "king">>>>,
                   <<<<4, "king">>, <<6, "king">>>>, <<<<5, "capture">>>>,
                   <<<<6, "king">>>>, <<<<1, "king">>, <<7, "quiet">>>>,
                   <<>>, <<<<9, "quiet">>>>, <<<<10, "king">>>>,
                   <<<<11, "quiet">>>>, <<<<8, "king">>>>,
                   <<<<13, "quiet">>>>, <<>>>>,
       check |-> {7}, kingcap |-> {},
       bare |-> <<{1, 2, 3, 4, 5, 6, 7, 8, 9, 10, 11, 12, 13}, {}>>, pawnless |-> <<{}, {}>>,
       nlp |-> <<{}, {}>>, orc |-> <<{}, {}>>,
       KRQ |-> 2, blocked |-> 0, lonely |-> FALSE, knights |-> FALSE,
       semi |-> {}, bishops2 |-> FALSE, roots |-> {1, 2, 4, 8, 12}],
      \* a blocked position: a forced double push, en passant legal after it
      [name |-> "BlockedEnPassant",
       stm |-> <<0, 1, 0, 0, 1, 1, 0>>,
       moves |-> <<<<<<2, "push">>>>, <<<<3, "capture">>, <<4, "king">>>>,
                   <<<<5, "king">>, <<6, "king">>>>,
                   <<<<5, "approach">>, <<6, "unblock">>>>,
                   <<<<7, "king">>>>, <<<<7, "king">>>>, <<>>>>,
       check |-> {1}, kingcap |-> {},
       bare |-> <<{}, {}>>, pawnless |-> <<{}, {}>>,
       nlp |-> <<{}, {}>>, orc |-> <<{1, 4, 5, 6}, {1, 4}>>,
       KRQ |-> 0, blocked |-> 4, lonely |-> FALSE, knights |-> FALSE,
       semi |-> {2, 5}, bishops2 |-> TRUE, roots |-> {1, 2, 4}],
      \* nine forced moves to a stalemate
      [name |-> "LongForced",
       stm |-> <<0, 1, 0, 1, 0, 1, 0, 1, 0, 1>>,
       moves |-> <<<<<<2, "quiet">>>>, <<<<3, "king">>>>, <<<<4, "quiet">>>>,
                   <<<<5, "king">>>>, <<<<6, "quiet">>>>, <<<<7, "king">>>>,
                   <<<<8, "quiet">>>>, <<<<9, "king">>>>, <<<<10, "push">>>>,
                   <<>>>>,
       check |-> {}, kingcap |-> {},
       bare |-> <<{}, {}>>, pawnless |-> <<{}, {}>>,
       nlp |-> <<{}, {}>>, orc |-> <<{}, {}>>,
       KRQ |-> 0, blocked |-> 1, lonely |-> FALSE, knights |-> FALSE,
       semi |-> {}, bishops2 |-> FALSE, roots |-> {1, 3}],
      \* an illegal position: the side to move can capture the king
      [name |-> "Illegal",
       stm |-> <<0, 1>>,
       moves |-> <<<<<<2, "capture">>>>, <<>>>>,
       check |-> {}, kingcap |-> {1},
       bare |-> <<{}, {}>>, pawnless |-> <<{}, {}>>,
       nlp |-> <<{}, {}>>, orc |-> <<{}, {}>>,
       KRQ |-> 2, blocked |-> 0, lonely |-> FALSE, knights |-> FALSE,
       semi |-> {}, bishops2 |-> FALSE, roots |-> {1}] }

\* The node limits a caller passes with -limit (cha.cpp:98-101), and the
\* default of the command line.
MaxLimit == 2
DefaultLimit == 500000
Limits == 0..MaxLimit \cup {DefaultLimit}

\* ---- What the rule engine tells about a position p or a move m = <<to, kind>>.
MoveList(p) == game.moves[p]
side_to_move(p) == game.stm[p]
checkers(p) == p \in game.check
to_sq(m) == m[1]
moved_piece(m) ==
    CASE m[2] \in {"king", "approach", "unblock"} -> KING
      [] m[2] = "push" -> PAWN
      [] OTHER -> BISHOP
capture(m) == m[2] = "capture"
advanced_pawn_push(m) == m[2] = "push"
promotion_type(m) == NO_PIECE_TYPE
popcount_pieces(p, c) == IF p \in game.bare[c + 1] THEN 1 ELSE 2
popcount_pawns(p, c) == IF p \in game.pawnless[c + 1] THEN 0 ELSE 1
popcount_KRQ(p) == game.KRQ
popcount_bishops(p, c) == IF game.bishops2 THEN 2 ELSE 1
has_knights(p) == game.knights
nb_blocked_pawns(p) == game.blocked
has_lonely_pawns(p) == game.lonely
semi_blocked_target(p) == p \in game.semi

\* dynamic.cpp:60-70: going_to_square for the mating target: only a king's
\* (or a bishop's or knight's) move can come closer.
going_to_square(m, toUnblockingTarget) ==
    IF toUnblockingTarget THEN m[2] = "unblock" ELSE m[2] = "approach"

\* dynamic.cpp:80-98.
need_loser_promotion(p, winner) == p \in game.nlp[winner + 1]

\* dynamic.cpp:107-114.
impossible_to_win_noBareKing(p, winner) ==
    popcount_pawns(p, Opp(winner)) = 0 /\ need_loser_promotion(p, winner)

impossible_to_win(p, winner) ==
    \/ popcount_pieces(p, winner) = 1
    \/ popcount_pawns(p, Opp(winner)) = 0 /\ need_loser_promotion(p, winner)

\* semistatic.cpp:390-403: the oracle.  Its verdict on a position with legal
\* moves is the saturation's, read from the graph; it is false where an en
\* passant capture is legal.
SemiStatic_is_unwinnable(p, intendedWinner) ==
    IF Len(MoveList(p)) = 0
    THEN ~checkers(p) \/ side_to_move(p) = intendedWinner
    ELSE p \in game.orc[intendedWinner + 1]

\* ---- The Search object (dynamic.h:162-280).
MAX_VARIATION_LENGTH == 2000

NewSearch(intendedWinner, nodesLimit) ==
    [winner |-> intendedWinner, depth |-> 0, maxSearchDepth |-> 0,
     mateLen |-> 0, result |-> "WINNABLE", flag |-> "PRE_STATIC",
     interrupted |-> FALSE, counter |-> 0, totalCounter |-> 0,
     localLimit |-> 0, globalLimit |-> nodesLimit,
     checkmateSequence |-> <<>>]

init(s) == [s EXCEPT !.totalCounter = 0, !.counter = 0, !.flag = "PRE_STATIC"]

set(s, maxDepth, initDepth, localNodesLimit) ==
    [s EXCEPT !.depth = initDepth, !.maxSearchDepth = maxDepth, !.mateLen = 0,
              !.result = "UNDETERMINED", !.interrupted = FALSE,
              !.localLimit = localNodesLimit,
              !.totalCounter = s.totalCounter + s.counter, !.counter = 0]

annotate_move(s, m) ==
    IF s.depth < MAX_VARIATION_LENGTH
    THEN [s EXCEPT !.checkmateSequence =
             [i \in (DOMAIN s.checkmateSequence) \cup {s.depth} |->
                 IF i = s.depth THEN m ELSE s.checkmateSequence[i]]]
    ELSE s

increase_cnt(s) == [s EXCEPT !.counter = s.counter + 1]
step(s) == [s EXCEPT !.depth = s.depth + 1]
undo_step(s) == [s EXCEPT !.depth = s.depth - 1]
set_winnable(s) == [s EXCEPT !.result = "WINNABLE", !.mateLen = s.depth]
set_unwinnable(s) == [s EXCEPT !.result = "UNWINNABLE"]

\* dynamic.h:231-235.
set_limit(s, nodesLimit) == [s EXCEPT !.globalLimit = nodesLimit]
set_winner(s, intendedWinner) == [s EXCEPT !.winner = intendedWinner]
set_undetermined_kept(s) == s
set_undetermined(s) == [s EXCEPT !.result = "UNDETERMINED"]
set_flag_stuck(s, searchFlag) == s
set_flag(s, searchFlag) == [s EXCEPT !.flag = searchFlag]
interrupt_lost(s) == s
interrupt(s) == [s EXCEPT !.interrupted = TRUE]
is_local_limit_reached(s) == s.counter > s.maxSearchDepth * s.localLimit
is_limit_reached(s) == s.totalCounter > s.globalLimit
get_nb_nodes(s) == s.totalCounter + s.counter

\* The transposition table: the depth saved for a key, for the keys saved.
\* A table that TT.clear() leaves an entry in.
TT_clear_stale == (1 :> 1000)

TT_clear == <<>>

\* An entry saved with more depth than was searched.
TT_save_deep(tt, key, d) == (key :> d + 1000) @@ tt
TT_found(tt, key) == key \in DOMAIN tt
TT_save(tt, key, d) == (key :> d) @@ tt

\* dynamic.cpp:175-228: the classification of the move m played from p.
VariationType(TARGET, p, m, winner, wasSemiBlocked) ==
    LET movedPiece == moved_piece(m)
        isWinnersTurn == side_to_move(p) = winner
        promoted == promotion_type(m)
        heavyProm == promoted = QUEEN \/ promoted = ROOK
        byPromotion ==
            IF need_loser_promotion(p, winner)
            THEN IF movedPiece = PAWN /\ ~heavyProm THEN "REWARD" ELSE "PUNISH"
            ELSE "NORMAL"
        byTarget ==
            IF TARGET # "ANY" THEN "NORMAL"
            ELSE IF isWinnersTurn
            THEN IF \/ advanced_pawn_push(m) \/ capture(m)
                    \/ going_to_square(m, FALSE)
                 THEN "REWARD" ELSE "NORMAL"
            ELSE IF going_to_square(m, FALSE) THEN "REWARD"
            ELSE IF capture(m) THEN "PUNISH"
            ELSE byPromotion
        onlyPawnsAndBishops == popcount_KRQ(p) = 0
        semiBlocked == semi_blocked_target(p)
    IN  IF ~(onlyPawnsAndBishops /\ nb_blocked_pawns(p) >= 4
                /\ ~has_lonely_pawns(p))
        THEN byTarget
        ELSE IF semiBlocked \/ wasSemiBlocked
        THEN IF capture(m) /\ isWinnersTurn THEN "REWARD"
             ELSE IF movedPiece = KING
             THEN IF semiBlocked /\ going_to_square(m, TRUE)
                  THEN "REWARD" ELSE "NORMAL"
             ELSE "PUNISH"
        ELSE IF going_to_square(m, FALSE)
                  /\ popcount_bishops(p, Opp(winner)) > 1
        THEN "REWARD"
        ELSE byTarget

\* dynamic.cpp:238: rewards stop at this ply.
RewardPlies == 400

\* dynamic.cpp:234-252: the depth the search continues with after the move.
\* The adjustment with the decrements and the increment taken from depth itself.
NewDepth_fromDepth(TARGET, s, depth, variation, pastProgress) ==
    IF TARGET # "ANY" THEN depth + 1
    ELSE CASE variation = "REWARD" -> depth - 1
           [] variation = "PUNISH" -> Min2(s.maxSearchDepth, depth + 2)
           [] OTHER -> IF pastProgress THEN depth - 1 ELSE depth + 1

NewDepth(TARGET, s, depth, variation, pastProgress) ==
    LET newDepth == depth + 1
    IN  IF TARGET # "ANY" THEN newDepth
        ELSE CASE variation = "REWARD" -> newDepth - 1
               [] variation = "PUNISH" -> Min2(s.maxSearchDepth, newDepth + 2)
               [] OTHER -> IF pastProgress THEN newDepth - 1 ELSE newDepth

\* dynamic.cpp:236-239: no reward beyond RewardPlies real plies.
Downgraded_never(TARGET, s, variation) == variation
Downgraded(TARGET, s, variation) ==
    IF TARGET = "ANY" /\ s.depth > RewardPlies /\ variation = "REWARD"
    THEN "NORMAL" ELSE variation

\* dynamic.cpp:126-271.  st = [search, TT, mate]; the result is st after the
\* call, with the returned value in mate.
RECURSIVE find_mate(_, _, _, _, _, _, _)
RECURSIVE find_mate_moves(_, _, _, _, _, _, _, _)

\* A plausible slip: the search limits tested before the checkmate.
find_mate_budgetFirst(MODE, TARGET, st, p, depth, pastProgress, wasSemiBlocked) ==
    LET winner == st.search.winner
        loser == Opp(winner)
        movesLeft == st.search.maxSearchDepth - depth
    IN  IF MODE = "FULL" /\ TT_found(st.TT, p) /\ st.TT[p] >= movesLeft
        THEN [st EXCEPT !.mate = FALSE]
        ELSE IF impossible_to_win(p, winner)
        THEN [st EXCEPT !.mate = FALSE]
        ELSE IF \/ depth >= st.search.maxSearchDepth
                \/ is_local_limit_reached(st.search)
        THEN [st EXCEPT !.search = interrupt(st.search), !.mate = FALSE]
        ELSE IF Len(MoveList(p)) = 0 /\ checkers(p) /\ side_to_move(p) = loser
        THEN [st EXCEPT !.search = set_winnable(st.search), !.mate = TRUE]
        ELSE find_mate_moves(MODE, TARGET,
                 IF MODE = "FULL"
                 THEN [st EXCEPT !.TT = TT_save(st.TT, p, movesLeft)]
                 ELSE st,
                 p, depth, pastProgress, wasSemiBlocked, 1)

find_mate(MODE, TARGET, st, p, depth, pastProgress, wasSemiBlocked) ==
    LET winner == st.search.winner
        loser == Opp(winner)
        movesLeft == st.search.maxSearchDepth - depth
    IN  IF MODE = "FULL" /\ TT_found(st.TT, p) /\ st.TT[p] >= movesLeft
        THEN [st EXCEPT !.mate = FALSE]
        ELSE IF impossible_to_win(p, winner)
        THEN [st EXCEPT !.mate = FALSE]
        ELSE IF Len(MoveList(p)) = 0 /\ checkers(p) /\ side_to_move(p) = loser
        THEN [st EXCEPT !.search = set_winnable(st.search), !.mate = TRUE]
        ELSE IF \/ depth >= st.search.maxSearchDepth
                \/ is_local_limit_reached(st.search)
        THEN [st EXCEPT !.search = interrupt(st.search), !.mate = FALSE]
        ELSE find_mate_moves(MODE, TARGET,
                 IF MODE = "FULL"
                 THEN [st EXCEPT !.TT = TT_save(st.TT, p, movesLeft)]
                 ELSE st,
                 p, depth, pastProgress, wasSemiBlocked, 1)

\* dynamic.cpp:174-270: the loop over the legal moves, from the i-th on.
find_mate_moves(MODE, TARGET, st, p, depth, pastProgress, wasSemiBlocked, i) ==
    IF i > Len(MoveList(p))
    THEN [st EXCEPT !.mate = FALSE]
    ELSE LET m == MoveList(p)[i]
             classified == VariationType(TARGET, p, m, st.search.winner,
                                         wasSemiBlocked)
             variation == Downgraded(TARGET, st.search, classified)
             newDepth == NewDepth(TARGET, st.search, depth, variation,
                                  pastProgress)
             entered == [st EXCEPT !.search =
                            increase_cnt(step(annotate_move(st.search,
                                                            <<p, to_sq(m)>>)))]
             r == find_mate(MODE, TARGET, entered, to_sq(m), newDepth,
                            variation = "REWARD",
                            semi_blocked_target(p) \/ wasSemiBlocked)
             left == [r EXCEPT !.search = undo_step(r.search)]
         IN  IF left.mate
             THEN left
             ELSE find_mate_moves(MODE, TARGET, left, p, depth, pastProgress,
                                  wasSemiBlocked, i + 1)

\* dynamic.cpp:273-303.  st = [search, movedKings, unwinnable].
RECURSIVE dynamically_unwinnable(_, _, _, _)
RECURSIVE dynamically_unwinnable_moves(_, _, _, _, _)

dynamically_unwinnable_anyMate(st, p, depth, winner) ==
    IF impossible_to_win(p, winner)
    THEN [st EXCEPT !.unwinnable = TRUE]
    ELSE IF Len(MoveList(p)) = 0 /\ checkers(p)
    THEN [st EXCEPT !.unwinnable = TRUE]
    ELSE IF depth <= 0
    THEN [st EXCEPT !.unwinnable = FALSE]
    ELSE dynamically_unwinnable_moves(st, p, depth, winner, 1)

dynamically_unwinnable(st, p, depth, winner) ==
    IF impossible_to_win(p, winner)
    THEN [st EXCEPT !.unwinnable = TRUE]
    ELSE IF Len(MoveList(p)) = 0 /\ checkers(p)
    THEN [st EXCEPT !.unwinnable = (side_to_move(p) = winner)]
    ELSE IF depth <= 0
    THEN [st EXCEPT !.unwinnable = FALSE]
    ELSE dynamically_unwinnable_moves(st, p, depth, winner, 1)

dynamically_unwinnable_moves(st, p, depth, winner, i) ==
    IF i > Len(MoveList(p))
    THEN [st EXCEPT !.unwinnable = TRUE]
    ELSE LET m == MoveList(p)[i]
             kings == IF moved_piece(m) = KING
                      THEN st.movedKings \cup
                             {IF side_to_move(p) = WHITE THEN 2 ELSE 1}
                      ELSE st.movedKings
             entered == [st EXCEPT
                            !.movedKings = kings,
                            !.search = increase_cnt(step(annotate_move(
                                          st.search, <<p, to_sq(m)>>)))]
             r == dynamically_unwinnable(entered, to_sq(m), depth - 1, winner)
         IN  IF ~r.unwinnable
             THEN r
             ELSE dynamically_unwinnable_moves(r, p, depth, winner, i + 1)

\* util.h:33, described at dynamic.cpp:307-312: as long as there is only one
\* legal move, make it, at most 'repetitions' times.  The result is the
\* position reached.
RECURSIVE UTIL_trivial_progress(_, _)
UTIL_trivial_progress(p, repetitions) ==
    IF Len(MoveList(p)) = 1 /\ repetitions > 0
    THEN UTIL_trivial_progress(to_sq(MoveList(p)[1]), repetitions - 1)
    ELSE p

\* The rule engine's repetition flag after a move: the position reached has
\* occurred before in the game played from the input position.
repetition_ofLastMove(history, p) == history[Len(history)] = p
repetition(history, p) == \E i \in 1..Len(history) : history[i] = p

\* dynamic.cpp:467-488.  history: the positions from the input position to p.
RECURSIVE is_unwinnable_with_trivial_progress(_, _, _)
is_unwinnable_with_trivial_progress(p, intendedWinner, history) ==
    IF Len(MoveList(p)) = 0
    THEN ~checkers(p) \/ side_to_move(p) = intendedWinner
    ELSE IF Len(MoveList(p)) = 1
    THEN LET q == to_sq(MoveList(p)[1])
         IN  \/ repetition(history, q)
             \/ is_unwinnable_with_trivial_progress(q, intendedWinner,
                                                    Append(history, q))
    ELSE SemiStatic_is_unwinnable(p, intendedWinner)

\* dynamic.cpp:490-497.
side_to_move_can_capture_king(p) == p \in game.kingcap

\* semistatic.cpp:407-422.  The result is <<the verdict, the position pos is
\* left on>>: the early return skips undo_move.
RECURSIVE is_unwinnable_after_one_move_from(_, _, _)
is_unwinnable_after_one_move_from(p, intendedWinner, i) ==
    IF i > Len(MoveList(p))
    THEN <<TRUE, p>>
    ELSE IF ~SemiStatic_is_unwinnable(to_sq(MoveList(p)[i]), intendedWinner)
    THEN <<FALSE, to_sq(MoveList(p)[i])>>
    ELSE is_unwinnable_after_one_move_from(p, intendedWinner, i + 1)

is_unwinnable_after_one_move(p, intendedWinner) ==
    IF Len(MoveList(p)) = 0
    THEN <<~checkers(p) \/ side_to_move(p) = intendedWinner, p>>
    ELSE is_unwinnable_after_one_move_from(p, intendedWinner, 1)

\* dynamic.cpp:591-601: the moves whose position is not known unwinnable.
RECURSIVE UndefinedBranches(_, _, _, _)
UndefinedBranches(p, intendedWinner, history, i) ==
    IF i > Len(MoveList(p))
    THEN <<>>
    ELSE LET m == MoveList(p)[i]
             rest == UndefinedBranches(p, intendedWinner, history, i + 1)
         IN  IF ~is_unwinnable_with_trivial_progress(
                     to_sq(m), intendedWinner, Append(history, to_sq(m)))
             THEN <<m>> \o rest
             ELSE rest

\* ---- The chess facts the verdicts are judged against.
Nodes == 1..Len(game.stm)

\* W has checkmated the other side in p.
IsMate(p, W) == Len(MoveList(p)) = 0 /\ checkers(p) /\ side_to_move(p) # W

\* The positions from which some sequence of at most k legal moves ends in a
\* checkmate by W.
RECURSIVE MateWithin(_, _)
MateWithin(W, k) ==
    IF k = 0
    THEN {p \in Nodes : IsMate(p, W)}
    ELSE LET near == MateWithin(W, k - 1)
         IN  near \cup {p \in Nodes :
                          \E i \in 1..Len(MoveList(p)) :
                              to_sq(MoveList(p)[i]) \in near}

HasHelpmate(p, W) == p \in MateWithin(W, Len(game.stm))

\* The length of the shortest helpmate for W from p.
ShortestHelpmate(p, W) ==
    CHOOSE k \in 0..Len(game.stm) :
        /\ p \in MateWithin(W, k)
        /\ k = 0 \/ p \notin MateWithin(W, k - 1)

\* The position reached by playing sequence[i .. n-1] from p; 0 if one of
\* the moves is not recorded or is not a legal move of the position it is
\* played in.
RECURSIVE PlayFrom(_, _, _, _)
PlayFrom(sequence, i, n, p) ==
    IF i >= n
    THEN p
    ELSE IF /\ i \in DOMAIN sequence
            /\ sequence[i][1] = p
            /\ \E j \in 1..Len(MoveList(p)) :
                   to_sq(MoveList(p)[j]) = sequence[i][2]
    THEN PlayFrom(sequence, i + 1, n, sequence[i][2])
    ELSE 0

\* sequence[0 .. n-1] is a legal helpmate for W from p.
IsLegalMate(sequence, n, p, W) ==
    LET q == PlayFrom(sequence, 0, n, p)
    IN  q # 0 /\ IsMate(q, W)

\* ---- One session of the command loop (cha.cpp:113-125) on one input line:
\* each analysis is run on the parsed position, with the static Search
\* object and the global transposition table.

\* The local variables of full_analysis and find_shortest.
NoFrame ==
    [undefinedBranches |-> <<>>, i |-> 0, unwinnableCount |-> 0,
     maxDepth |-> 0, inBranch |-> FALSE, depth |-> 0]

\* What a call returned: get_result(), the fields print_result reads, the
\* flag, and the place of the return statement.
NotRun ==
    [done |-> FALSE, result |-> "NONE", mateLen |-> 0,
     checkmateSequence |-> <<>>, flag |-> "PRE_STATIC", totalCounter |-> 0,
     stage |-> "none", stable |-> FALSE]

Returned(s, stage, stable) ==
    [done |-> TRUE, result |-> s.result, mateLen |-> s.mateLen,
     checkmateSequence |-> s.checkmateSequence, flag |-> s.flag,
     totalCounter |-> s.totalCounter, stage |-> stage, stable |-> stable]

SearchIdle ==
    /\ game = <<>>
    /\ inputPos = 0
    /\ pos = 0
    /\ states = <<>>
    /\ search = NewSearch(WHITE, 0)
    /\ TT = TT_clear
    /\ pc = "idle"
    /\ frame = NoFrame
    /\ ret = [full |-> NotRun, quick |-> NotRun, shortest |-> NotRun]

\* cha.cpp:80, 104-105: the limit of the command line; the position and the
\* intended winner of the input line.
SearchStart ==
    /\ game \in Scenarios
    /\ inputPos \in game.roots
    /\ pos = inputPos
    /\ states = <<>>
    /\ \E intendedWinner \in Colors, globalLimit \in Limits :
           search = NewSearch(intendedWinner, globalLimit)
    /\ TT = TT_clear
    /\ pc = "idle"
    /\ frame = NoFrame
    /\ ret = [full |-> NotRun, quick |-> NotRun, shortest |-> NotRun]

\* A return statement of full_analysis.
FullReturn(s, stage) ==
    /\ search' = s
    /\ ret' = [ret EXCEPT !.full = Returned(s, stage, FALSE)]
    /\ pc' = "idle"

\* dynamic.cpp:521-533: the entry of full_analysis and the king-capture test.
FullStart ==
    /\ pc = "idle"
    /\ ~ret.full.done
    /\ pos' = inputPos
    /\ frame' = NoFrame
    /\ LET s == set(init(search), 0, 0, 0)
       IN  IF side_to_move_can_capture_king(inputPos)
           THEN /\ FullReturn(set_unwinnable(s), "king capture")
                /\ states' = <<>>
           ELSE /\ search' = s
                /\ pc' = "trivial"
                /\ states' = <<inputPos>>
                /\ UNCHANGED ret
    /\ UNCHANGED <<game, inputPos, TT>>

\* dynamic.cpp:536-550: one forced move of the trivial progress.
FullTrivialProgress ==
    /\ pc = "trivial"
    /\ Len(MoveList(pos)) = 1
    /\ LET m == MoveList(pos)[1]
           s == step(annotate_move(search, <<pos, to_sq(m)>>))
       IN  /\ pos' = to_sq(m)
           /\ states' = Append(states, to_sq(m))
           /\ IF repetition(states, to_sq(m))
              THEN FullReturn(set_unwinnable(s), "repetition")
              ELSE /\ search' = s
                   /\ UNCHANGED <<pc, ret>>
    /\ UNCHANGED <<game, inputPos, TT, frame>>

\* dynamic.cpp:551-570: the end of the trivial progress, the test for
\* checkmate or stalemate, and the material test.
FullTerminalTests ==
    /\ pc = "trivial"
    /\ Len(MoveList(pos)) # 1
    /\ IF Len(MoveList(pos)) = 0
       THEN IF checkers(pos) /\ side_to_move(pos) = Opp(search.winner)
            THEN FullReturn(set_winnable(search), "terminal")
            ELSE FullReturn(set_unwinnable(search), "terminal")
       ELSE IF impossible_to_win(pos, search.winner)
       THEN FullReturn(set_unwinnable(search), "material")
       ELSE /\ pc' = "shallow"
            /\ UNCHANGED <<search, ret>>
    /\ UNCHANGED <<game, inputPos, pos, states, TT, frame>>

\* dynamic.cpp:572-580: the quick search of depth 2.
FullShallowSearch ==
    /\ pc = "shallow"
    /\ LET r == find_mate("QUICK", "ANY",
                          [search |-> set(search, 2, 0, 5000), TT |-> TT,
                           mate |-> FALSE],
                          pos, 0, FALSE, FALSE)
           s == IF ~r.search.interrupted /\ ~r.mate
                THEN set_unwinnable(r.search) ELSE r.search
       IN  IF s.result # "UNDETERMINED"
           THEN FullReturn(s, "shallow search")
           ELSE /\ search' = s
                /\ pc' = "static"
                /\ UNCHANGED ret
    /\ UNCHANGED <<game, inputPos, pos, states, TT, frame>>

\* dynamic.cpp:582-588: the semi-static oracle.
FullStatic ==
    /\ pc = "static"
    /\ LET s == set_flag(search, "STATIC")
       IN  IF SemiStatic_is_unwinnable(pos, s.winner)
           THEN FullReturn(set_unwinnable(s), "oracle")
           ELSE /\ search' = s
                /\ pc' = "lookahead"
                /\ UNCHANGED ret
    /\ UNCHANGED <<game, inputPos, pos, states, TT, frame>>

\* dynamic.cpp:590-612, 638-640: the one-ply lookahead, and the entry of the
\* search of the branches or of the whole position.
FullLookahead ==
    /\ pc = "lookahead"
    /\ LET undefinedBranches ==
               UndefinedBranches(pos, search.winner, states, 1)
       IN  IF Len(undefinedBranches) = 0
           THEN /\ FullReturn(set_unwinnable(search), "lookahead")
                /\ UNCHANGED <<TT, frame>>
           ELSE /\ search' = set_flag(search, "POST_STATIC")
                /\ TT' = TT_clear
                /\ IF Len(undefinedBranches) # Len(MoveList(pos))
                   THEN /\ pc' = "branch"
                        /\ frame' = [NoFrame EXCEPT
                               !.undefinedBranches = undefinedBranches,
                               !.i = 1]
                   ELSE /\ pc' = "deepen"
                        /\ frame' = [NoFrame EXCEPT !.maxDepth = 2]
                /\ UNCHANGED ret
    /\ UNCHANGED <<game, inputPos, pos, states>>

\* dynamic.cpp:613-618: the move into the next undefined branch.
FullBranchEnter ==
    /\ pc = "branch"
    /\ frame.i <= Len(frame.undefinedBranches)
    /\ LET m == frame.undefinedBranches[frame.i]
       IN  /\ pos' = to_sq(m)
           /\ states' = Append(states, to_sq(m))
           /\ search' = increase_cnt(step(annotate_move(search,
                                                        <<pos, to_sq(m)>>)))
    /\ pc' = "deepen"
    /\ frame' = [frame EXCEPT !.maxDepth = 2, !.inBranch = TRUE]
    /\ UNCHANGED <<game, inputPos, TT, ret>>

\* dynamic.cpp:501-518: one iteration of iterative_deepening, and its return
\* (to the loop over the branches, or at dynamic.cpp:640-643).
IterativeDeepening ==
    /\ pc = "deepen"
    /\ LET r == find_mate("FULL", "ANY",
                          [search |-> set(search, frame.maxDepth,
                                          search.depth, 10000),
                           TT |-> TT, mate |-> FALSE],
                          pos, 0, FALSE, FALSE)
           s == IF ~r.search.interrupted /\ ~r.mate
                THEN set_unwinnable(r.search) ELSE r.search
       IN  /\ TT' = r.TT
           /\ IF /\ s.result = "UNDETERMINED"
                 /\ ~is_limit_reached(s)
                 /\ frame.maxDepth < 1000
              THEN /\ search' = s
                   /\ frame' = [frame EXCEPT !.maxDepth = frame.maxDepth + 1]
                   /\ UNCHANGED <<pc, ret>>
              ELSE IF frame.inBranch
              THEN /\ search' = s
                   /\ pc' = "branch exit"
                   /\ UNCHANGED <<frame, ret>>
              ELSE /\ FullReturn(s, "iterative deepening")
                   /\ UNCHANGED frame
    /\ UNCHANGED <<game, inputPos, pos, states>>

\* dynamic.cpp:620-643: after the search of a branch: the count of the
\* unwinnable branches, the way back, and the three ways out of the loop.
FullBranchExit ==
    /\ pc = "branch exit"
    /\ LET unwinnable == search.result = "UNWINNABLE"
           unwinnableCount ==
               frame.unwinnableCount + (IF unwinnable THEN 1 ELSE 0)
           s == undo_step(IF unwinnable THEN set_undetermined(search)
                          ELSE search)
       IN  /\ pos' = states[Len(states) - 1]
           /\ states' = SubSeq(states, 1, Len(states) - 1)
           /\ frame' = [frame EXCEPT !.unwinnableCount = unwinnableCount,
                                     !.i = frame.i + 1,
                                     !.inBranch = FALSE]
           /\ IF ~is_limit_reached(s) /\ s.result = "WINNABLE"
              THEN FullReturn(s, "branch")
              ELSE IF \/ is_limit_reached(s)
                      \/ frame.i >= Len(frame.undefinedBranches)
              THEN FullReturn(
                       IF unwinnableCount = Len(frame.undefinedBranches)
                       THEN set_unwinnable(s) ELSE s,
                       "branches")
              ELSE /\ search' = s
                   /\ pc' = "branch"
                   /\ UNCHANGED ret
    /\ UNCHANGED <<game, inputPos, TT>>

\* dynamic.cpp:374-416: quick_analysis(pos, search, stable).  The result is
\* the Search object and the position pos is left on: without 'stable' the
\* moves of UTIL::trivial_progress are never taken back, and the early return
\* of is_unwinnable_after_one_move leaves one more move on the board.
quick_analysis(s0, p0, stable) ==
    LET winner == s0.winner
        p == IF stable THEN p0 ELSE UTIL_trivial_progress(p0, 100)
        onlyPawnsAndBishops == popcount_KRQ(p) = 0
        almostOnlyPawnsAndBishops == popcount_KRQ(p) <= 1
        first == dynamically_unwinnable(
                     [search |-> set(init(s0), 0, 0, 0),
                      movedKings |-> {}, unwinnable |-> FALSE],
                     p, 7, winner)
        second ==
            IF /\ ~first.unwinnable /\ onlyPawnsAndBishops
               /\ first.movedKings # {1, 2}
               /\ Len(MoveList(p)) <= 8
            THEN dynamically_unwinnable(first, p, 15, winner)
            ELSE first
        blockedCandidate ==
            nb_blocked_pawns(p) >= 1 /\ ~has_lonely_pawns(p)
        static ==
            \/ second.unwinnable
            \/ /\ blockedCandidate /\ onlyPawnsAndBishops
               /\ SemiStatic_is_unwinnable(p, winner)
        oneMove ==
            IF /\ ~stable /\ blockedCandidate /\ ~static
               /\ almostOnlyPawnsAndBishops
               /\ (checkers(p) \/ has_knights(p))
            THEN is_unwinnable_after_one_move(p, winner)
            ELSE <<FALSE, p>>
    IN  [search |-> IF static \/ oneMove[1]
                    THEN set_unwinnable(second.search) ELSE second.search,
         pos |-> oneMove[2]]

\* cha.cpp:127: the quick analysis of the command loop.
QuickAnalysis ==
    /\ pc = "idle"
    /\ ~ret.quick.done
    /\ \E stable \in BOOLEAN :
         LET r == quick_analysis(search, inputPos, stable)
         IN  /\ pos' = r.pos
             /\ search' = r.search
             /\ ret' = [ret EXCEPT
                            !.quick = Returned(r.search, "quick", stable)]
    /\ UNCHANGED <<game, inputPos, states, TT, pc, frame>>

\* dynamic.cpp:418-428: the entry of find_shortest.
FindShortestStart ==
    /\ pc = "idle"
    /\ ~ret.shortest.done
    /\ pos' = inputPos
    /\ search' = IF SemiStatic_is_unwinnable(inputPos, search.winner)
                 THEN set_unwinnable(init(search)) ELSE init(search)
    /\ TT' = TT_clear
    /\ frame' = [NoFrame EXCEPT
                    !.depth = IF side_to_move(inputPos) = search.winner
                              THEN 1 ELSE 0]
    /\ pc' = "shortest"
    /\ UNCHANGED <<game, inputPos, states, ret>>

\* dynamic.cpp:430-442: one iteration of find_shortest, and its return.
FindShortestIteration ==
    /\ pc = "shortest"
    /\ LET r == find_mate("FULL", "SHORTEST",
                          [search |-> set(search, frame.depth, 0,
                                          search.globalLimit),
                           TT |-> TT, mate |-> FALSE],
                          pos, 0, FALSE, FALSE)
           s == IF ~r.search.interrupted /\ ~r.mate
                THEN set_unwinnable(r.search) ELSE r.search
       IN  /\ TT' = r.TT
           /\ search' = s
           /\ IF /\ s.result = "UNDETERMINED"
                 /\ ~is_limit_reached(s)
                 /\ frame.depth + 2 <= 1000
              THEN /\ frame' = [frame EXCEPT !.depth = frame.depth + 2]
                   /\ UNCHANGED <<pc, ret>>
              ELSE /\ ret' = [ret EXCEPT
                                 !.shortest = Returned(s, "shortest", FALSE)]
                   /\ pc' = "idle"
                   /\ UNCHANGED frame
    /\ UNCHANGED <<game, inputPos, pos, states>>

---------------------------------------------------------------------------
(* cha.cpp:46-67: parse_line.  An input line is a sequence of characters;  *)
(* a run of letters that the model never splits ("white", "black") stands  *)
(* as one element, so "white8" is <<"white", "8">>, a token that is not    *)
(* the token "white".                                                      *)

MaxLineLen == 5
LineChars == {" ", "8", "w", "b", "white", "black"}
Lines == UNION {[1..n -> LineChars] : n \in 0..MaxLineLen}

\* The first character of an element.
FirstChar(x) ==
    CASE x = "white" -> "w"
      [] x = "black" -> "b"
      [] OTHER -> x

\* operator>>(istream&, string&): skip the white space, then read up to the
\* next white space.  The extraction fails at the end of the stream.
RECURSIVE SkipSpaces(_, _)
SkipSpaces(stream, i) ==
    IF i <= Len(stream) /\ stream[i] = " "
    THEN SkipSpaces(stream, i + 1) ELSE i

RECURSIVE TokenEnd(_, _)
TokenEnd(stream, i) ==
    IF i <= Len(stream) /\ stream[i] # " "
    THEN TokenEnd(stream, i + 1) ELSE i

Extract(stream, i) ==
    LET from == SkipSpaces(stream, i)
    IN  IF from > Len(stream)
        THEN [ok |-> FALSE, token |-> <<>>, next |-> from]
        ELSE [ok |-> TRUE,
              token |-> SubSeq(stream, from, TokenEnd(stream, from) - 1),
              next |-> TokenEnd(stream, from)]

\* cha.cpp:54-55: the loop that collects the FEN.  The result is <<token, fen>>
\* when the loop is left; a failed extraction leaves token as it was.
RECURSIVE ParseLoop(_, _, _, _)
ParseLoop(stream, i, token, fen) ==
    LET e == Extract(stream, i)
    IN  IF ~e.ok
        THEN <<token, fen>>
        ELSE IF e.token = <<"black">> \/ e.token = <<"white">>
        THEN <<e.token, fen>>
        ELSE ParseLoop(stream, e.next, e.token, fen \o e.token \o <<" ">>)

\* Position::set, the active colour: the character that follows the white
\* space after the piece placement is compared with 'w'.  On an empty FEN
\* the character compared was never read.
SideToMoveOutcomes(fen) ==
    LET colour == TokenEnd(fen, 1) + 1
    IN  IF Len(fen) = 0
        THEN Colors
        ELSE IF colour <= Len(fen) /\ FirstChar(fen[colour]) = "w"
        THEN {WHITE}
        ELSE {BLACK}

\* cha.cpp:66: the default winner.
DefaultWinner_sideToMove(sideToMove) == sideToMove

DefaultWinner(sideToMove) == Opp(sideToMove)

\* cha.cpp:59-66.
WinnerOf(token, sideToMove) ==
    IF token = <<"white">> THEN WHITE
    ELSE IF token = <<"black">> THEN BLACK
    ELSE DefaultWinner(sideToMove)

NotParsed == [done |-> FALSE, fen |-> <<>>, sideToMove |-> WHITE,
              winner |-> WHITE]

\* CHA::is_dead not called: the build's value of quick_analysis's 'stable'
\* when it is called with two arguments, the result of the first analysis,
\* the position the second one was started on and whether the StateInfo of
\* that position was still alive, its result, and the value returned.
NotDead ==
    [stage |-> "idle", stable |-> FALSE, first |-> "NONE", posAtSecond |-> 0,
     dangling |-> FALSE, second |-> "NONE", value |-> FALSE]

CliIdle ==
    /\ inputLine = <<>>
    /\ parsed = NotParsed
    /\ dead = NotDead

ParseStart ==
    /\ inputLine \in Lines
    /\ parsed = NotParsed
    /\ dead = NotDead

\* cha.cpp:50-67.
ParseLine ==
    /\ ~parsed.done
    /\ LET r == ParseLoop(inputLine, 1, <<>>, <<>>)
       IN  \E sideToMove \in SideToMoveOutcomes(r[2]) :
               parsed' = [done |-> TRUE, fen |-> r[2],
                          sideToMove |-> sideToMove,
                          winner |-> WinnerOf(r[1], sideToMove)]
    /\ UNCHANGED <<inputLine, dead>>

---------------------------------------------------------------------------
(* cha.cpp:33-44: CHA::is_dead, with its own static Search object (the     *)
(* variable search).  dynamic.h:284 declares quick_analysis with two       *)
(* parameters and dynamic.cpp:374 defines it with three, so the value of   *)
(* 'stable' in the two calls is whatever the build supplies.               *)

IsDeadLimit == 5000000

IsDeadStart ==
    /\ game \in Scenarios
    /\ inputPos \in Nodes \ game.kingcap
    /\ pos = inputPos
    /\ states = <<>>
    /\ search = NewSearch(WHITE, 0)
    /\ TT = TT_clear
    /\ pc = "idle"
    /\ frame = NoFrame
    /\ ret = [full |-> NotRun, quick |-> NotRun, shortest |-> NotRun]
    /\ inputLine = <<>>
    /\ parsed = NotParsed
    /\ \E stable \in BOOLEAN : dead = [NotDead EXCEPT !.stable = stable]

\* cha.cpp:34-40: the analysis for White, and the return of false.
IsDeadFirst ==
    /\ dead.stage = "idle"
    /\ LET r == quick_analysis(
                    set_winner(set_limit(search, IsDeadLimit), WHITE),
                    pos, dead.stable)
       IN  /\ search' = r.search
           /\ pos' = r.pos
           /\ dead' = [dead EXCEPT
                          !.first = r.search.result,
                          !.stage = IF r.search.result # "UNWINNABLE"
                                    THEN "done" ELSE "first",
                          !.value = FALSE]
    /\ UNCHANGED <<game, inputPos, states, TT, pc, frame, ret,
                   inputLine, parsed>>

\* cha.cpp:42-43: the analysis for Black, on the position the first one
\* left.  If the first analysis made moves, the position refers to the
\* StateInfo that was a local variable of that call (dynamic.cpp:380-382):
\* every query of the position reads released storage, and either result
\* may come out.
IsDeadSecond ==
    /\ dead.stage = "first"
    /\ LET r == quick_analysis(set_winner(search, BLACK), pos, dead.stable)
           dangling == pos # inputPos
       IN  \E result \in {"UNWINNABLE", "UNDETERMINED"} :
             /\ dangling \/ result = r.search.result
             /\ search' = [r.search EXCEPT !.result = result]
             /\ pos' = r.pos
             /\ dead' = [dead EXCEPT
                            !.posAtSecond = pos,
                            !.dangling = dangling,
                            !.second = result,
                            !.stage = "done",
                            !.value = (result = "UNWINNABLE")]
    /\ UNCHANGED <<game, inputPos, states, TT, pc, frame, ret,
                   inputLine, parsed>>

---------------------------------------------------------------------------
(* The breadth-first distance in the knight-move graph, the reference of   *)
(* the knight-distance claim.                                              *)

KnightStep(a, b) ==
    {FileDistance(a, b), RankDistance(a, b)} = {1, 2}

RECURSIVE BfsLevels(_, _, _, _)
BfsLevels(frontier, seen, d, dist) ==
    IF frontier = {}
    THEN dist
    ELSE LET next == {b \in Squares \ seen : \E a \in frontier : KnightStep(a, b)}
         IN  BfsLevels(next, seen \cup next, d + 1,
                       [b \in Squares |-> IF b \in frontier THEN d ELSE dist[b]])

KnightBfs == [a \in Squares |-> BfsLevels({a}, {a}, 0, [b \in Squares |-> -1])]

---------------------------------------------------------------------------
(* Specifications of the two board-level tables.                           *)

\* ---------------------------------------------------------------------
\* One pass through the depth adjustment of find_mate (dynamic.cpp:234-252)
\* on given arguments: the node's depth, the search's max_depth and
\* actual_depth, the move's variation and the caller's pastProgress.
MaxDepthArg == 4

Targets == {"ANY", "SHORTEST"}

Variations == {"REWARD", "NORMAL", "PUNISH"}

NoDepthCall == [stage |-> "idle", TARGET |-> "ANY", depth |-> 0, maxSearchDepth |-> 0, actualDepth |-> 0, variation |-> "NORMAL", pastProgress |-> FALSE, newDepth |-> 0]

NoOracle == [stage |-> "idle", winner |-> 0, stm |-> 0, moves |-> "some", checkers |-> FALSE, value |-> FALSE]

FnIdle == ndCall = NoDepthCall /\ oracle = NoOracle

DepthStart ==
    /\ \E t \in Targets, md \in 1..MaxDepthArg, d \in 0..(MaxDepthArg - 1), ad \in {0, RewardPlies, RewardPlies + 1}, v \in Variations, pp \in BOOLEAN :
          /\ d < md
          /\ ndCall = [stage |-> "called", TARGET |-> t, depth |-> d, maxSearchDepth |-> md, actualDepth |-> ad, variation |-> IF t = "ANY" THEN v ELSE "NORMAL", pastProgress |-> pp, newDepth |-> 0]
    /\ oracle = NoOracle

DepthAdjust ==
    /\ ndCall.stage = "called"
    /\ LET s == [maxSearchDepth |-> ndCall.maxSearchDepth, depth |-> ndCall.actualDepth]
           variation == Downgraded(ndCall.TARGET, s, ndCall.variation)
       IN  ndCall' = [ndCall EXCEPT !.stage = "adjusted", !.variation = variation, !.newDepth = NewDepth(ndCall.TARGET, s, ndCall.depth, variation, ndCall.pastProgress)]
    /\ UNCHANGED oracle

\* ---------------------------------------------------------------------
\* The semi-static test on a saturated position.

\* util.cpp:79-98
HasLonelyPawns(b) ==
    LET whitePawnOcc == {file_of(s) : s \in {x \in Squares : b[x] = PAWN /\ x < 48}}
        blackPawnOcc == {file_of(s) : s \in {x \in Squares : b[x] = PAWN + 8 /\ x > 15}}
    IN  whitePawnOcc # blackPawnOcc

\* util.cpp:56-66
neighbours(s) == {unmove(KING, WHITE, s)[j] : j \in 1..8} \ {-1}

\* util.cpp:68-76
find_king(b, c) ==
    IF \E s \in Squares : b[s] = KING + 8 * c
    THEN CHOOSE s \in Squares : b[s] = KING + 8 * c
    ELSE SQ_H8 + 1

distance(s, t) == Max2(Abs(file_of(s) - file_of(t)), Abs(rank_of(s) - rank_of(t)))

\* semistatic.cpp:232-242
king_region(V, b, c) == {t \in Squares : index(KING, c, find_king(b, c), t) \in V}

\* semistatic.cpp:246-268
visitors(V, b, region, c) ==
    {s \in Occupied(b) :
        /\ ~(type_of(b[s]) = PAWN /\ index(PAWN, c, s, SQ_A1) \notin V)
        /\ color_of(b[s]) = c
        /\ \E t \in region : index(type_of(b[s]), c, s, t) \in V}

\* The test of the unblockable squares applied whatever the winner's king.
Candidate_noKing(V, b, intendedWinner, s) ==
    LET loser == Opp(intendedWinner)
        kings == pieces_of(b, {KING})
        loserKingRegion == king_region(V, b, loser)
        nonKing == visitors(V, b, loserKingRegion, intendedWinner) \ kings
        visitorsSquareColor == IF nonKing \cap DarkSquares # {} THEN DarkSquares ELSE Squares \ DarkSquares
        matingBishops == visitors(V, b, {s}, intendedWinner) \ kings
        around == {t \in loserKingRegion : distance(s, t) = 1}
        escapingSquares == around \ visitorsSquareColor
        checkingSquares == around \cap visitorsSquareColor
        activeWinnersKing == visitors(V, b, neighbours(s), intendedWinner) \cap kings # {}
        twoDiagonals == \E t \in checkingSquares : t + 2 \in checkingSquares \/ t + 16 \in checkingSquares
        unblockable == \E e \in escapingSquares : visitors(V, b, {e}, loser) \ kings = {}
        actualBlockers == visitors(V, b, escapingSquares, loser) \ kings
        blockersCnt == (IF activeWinnersKing THEN 1 ELSE 0) + Cardinality(actualBlockers)
    IN  [skipped |-> \/ matingBishops = {}
                     \/ s \notin loserKingRegion
                     \/ twoDiagonals /\ Cardinality(matingBishops) < 2 /\ ~activeWinnersKing
                     \/ unblockable,
         unblockable |-> unblockable,
         activeWinnersKing |-> activeWinnersKing,
         escapingSquares |-> escapingSquares,
         enough |-> Cardinality(escapingSquares) <= blockersCnt]

\* semistatic.cpp:303-357: the turn of the loop for the candidate square s:
\* whether s is skipped (continue), and whether it ends the loop (return false).
Candidate(V, b, intendedWinner, s) ==
    LET loser == Opp(intendedWinner)
        kings == pieces_of(b, {KING})
        loserKingRegion == king_region(V, b, loser)
        nonKing == visitors(V, b, loserKingRegion, intendedWinner) \ kings
        visitorsSquareColor == IF nonKing \cap DarkSquares # {} THEN DarkSquares ELSE Squares \ DarkSquares
        matingBishops == visitors(V, b, {s}, intendedWinner) \ kings
        around == {t \in loserKingRegion : distance(s, t) = 1}
        escapingSquares == around \ visitorsSquareColor
        checkingSquares == around \cap visitorsSquareColor
        activeWinnersKing == visitors(V, b, neighbours(s), intendedWinner) \cap kings # {}
        twoDiagonals == \E t \in checkingSquares : t + 2 \in checkingSquares \/ t + 16 \in checkingSquares
        unblockable == \E e \in escapingSquares : visitors(V, b, {e}, loser) \ kings = {}
        actualBlockers == visitors(V, b, escapingSquares, loser) \ kings
        blockersCnt == (IF activeWinnersKing THEN 1 ELSE 0) + Cardinality(actualBlockers)
    IN  [skipped |-> \/ matingBishops = {}
                     \/ s \notin loserKingRegion
                     \/ twoDiagonals /\ Cardinality(matingBishops) < 2 /\ ~activeWinnersKing
                     \/ unblockable /\ ~activeWinnersKing,
         unblockable |-> unblockable,
         activeWinnersKing |-> activeWinnersKing,
         escapingSquares |-> escapingSquares,
         enough |-> Cardinality(escapingSquares) <= blockersCnt]

\* The winner's non-king pieces that can visit the loser's king region.
Visitors(V, b, intendedWinner) ==
    visitors(V, b, king_region(V, b, Opp(intendedWinner)), intendedWinner) \ pieces_of(b, {KING})

\* The test with the winner's king left among the visitors.
System_is_unwinnable_kingVisits(V, b, intendedWinner) ==
    LET v == visitors(V, b, king_region(V, b, Opp(intendedWinner)), intendedWinner)
    IN  IF HasLonelyPawns(b) THEN FALSE
        ELSE IF v = {} THEN TRUE
        ELSE IF v \cap DarkSquares # {} /\ v \ DarkSquares # {} THEN FALSE
        ELSE IF \E s \in v : type_of(b[s]) # BISHOP THEN FALSE
        ELSE \A s \in Squares : LET r == Candidate(V, b, intendedWinner, s) IN r.skipped \/ ~r.enough

\* semistatic.cpp:270-367
System_is_unwinnable(V, b, intendedWinner) ==
    LET v == Visitors(V, b, intendedWinner)
    IN  IF HasLonelyPawns(b) THEN FALSE
        ELSE IF v = {} THEN TRUE
        ELSE IF v \cap DarkSquares # {} /\ v \ DarkSquares # {} THEN FALSE
        ELSE IF \E s \in v : type_of(b[s]) # BISHOP THEN FALSE
        ELSE \A s \in Squares : LET r == Candidate(V, b, intendedWinner, s) IN r.skipped \/ ~r.enough

\* The test with the lonely pawns looked at before the legal moves.
Terminal_lonelyFirst(b, o) == IF HasLonelyPawns(b) THEN FALSE ELSE ~o.checkers \/ o.stm = o.winner

\* semistatic.cpp:393-394: checkmate or stalemate.
Terminal(b, o) == ~o.checkers \/ o.stm = o.winner

\* The positions the test is called on, with the facts that the move
\* generator gives about them: the side to move, whether it has a legal move
\* ("none"), a legal en-passant capture ("ep") or other moves only ("some"),
\* and whether it is in check.
OraclePositions ==
    {
      \* 4k3/8/4K3/8/8/8/8/8 w
      [board |-> Place({<<44, 6>>, <<60, 14>>}), stm |-> WHITE, moves |-> "some", checkers |-> FALSE],
      \* 4k3/8/4K3/8/8/8/8/8 b
      [board |-> Place({<<44, 6>>, <<60, 14>>}), stm |-> BLACK, moves |-> "some", checkers |-> FALSE],
      \* 8/8/8/4k3/8/8/8/NNK5 w
      [board |-> Place({<<0, 2>>, <<1, 2>>, <<2, 6>>, <<36, 14>>}), stm |-> WHITE, moves |-> "some", checkers |-> FALSE],
      \* 8/8/8/4k3/8/8/8/2B1K3 w
      [board |-> Place({<<2, 3>>, <<4, 6>>, <<36, 14>>}), stm |-> WHITE, moves |-> "some", checkers |-> FALSE],
      \* 8/8/8/4k3/8/8/8/2BBK3 b
      [board |-> Place({<<2, 3>>, <<3, 3>>, <<4, 6>>, <<36, 14>>}), stm |-> BLACK, moves |-> "some", checkers |-> FALSE],
      \* 4k3/P7/8/8/8/8/8/4K3 w
      [board |-> Place({<<4, 6>>, <<48, 1>>, <<60, 14>>}), stm |-> WHITE, moves |-> "some", checkers |-> FALSE],
      \* 4k3/8/8/4p3/4P3/8/8/4K3 w
      [board |-> Place({<<4, 6>>, <<28, 1>>, <<36, 9>>, <<60, 14>>}), stm |-> WHITE, moves |-> "some", checkers |-> FALSE],
      \* 4k3/8/8/3pp3/4P3/8/8/4K3 w
      [board |-> Place({<<4, 6>>, <<28, 1>>, <<35, 9>>, <<36, 9>>, <<60, 14>>}), stm |-> WHITE, moves |-> "some", checkers |-> FALSE],
      \* 8/8/8/1k6/p1p1p1p1/P1P1P1P1/8/1K3B2 w
      [board |-> Place({<<1, 6>>, <<5, 3>>, <<16, 1>>, <<18, 1>>, <<20, 1>>, <<22, 1>>, <<24, 9>>, <<26, 9>>, <<28, 9>>, <<30, 9>>, <<33, 14>>}), stm |-> WHITE, moves |-> "some", checkers |-> FALSE],
      \* 7b/1k5B/7b/8/1p1p1p1p/1PpP1P1P/2P3K1/N7 b
      [board |-> Place({<<0, 2>>, <<10, 1>>, <<14, 6>>, <<17, 1>>, <<18, 9>>, <<19, 1>>, <<21, 1>>, <<23, 1>>, <<25, 9>>, <<27, 9>>, <<29, 9>>, <<31, 9>>, <<47, 11>>, <<49, 14>>, <<55, 3>>, <<63, 11>>}), stm |-> BLACK, moves |-> "some", checkers |-> FALSE],
      \* 7k/5K2/6P1/8/8/8/8/8 b
      [board |-> Place({<<46, 1>>, <<53, 6>>, <<63, 14>>}), stm |-> BLACK, moves |-> "none", checkers |-> FALSE],
      \* 7k/6Q1/6K1/8/8/8/8/8 b
      [board |-> Place({<<46, 6>>, <<54, 5>>, <<63, 14>>}), stm |-> BLACK, moves |-> "none", checkers |-> TRUE],
      \* 4k3/8/8/3pP3/8/8/8/4K3 w
      [board |-> Place({<<4, 6>>, <<35, 9>>, <<36, 1>>, <<60, 14>>}), stm |-> WHITE, moves |-> "ep", checkers |-> FALSE],
      \* b2k4/Kp1p1pBp/1PbP1PbP/1p1p1p1p/1P1P1P1P/8/8/8 w
      [board |-> Place({<<25, 1>>, <<27, 1>>, <<29, 1>>, <<31, 1>>, <<33, 9>>, <<35, 9>>, <<37, 9>>, <<39, 9>>, <<41, 1>>, <<42, 11>>, <<43, 1>>, <<45, 1>>, <<46, 11>>, <<47, 1>>, <<48, 6>>, <<49, 9>>, <<51, 9>>, <<53, 9>>, <<54, 3>>, <<55, 9>>, <<56, 11>>, <<59, 14>>}), stm |-> WHITE, moves |-> "some", checkers |-> FALSE] }

OracleStart ==
    /\ \E p \in OraclePositions, w \in Colors :
          /\ board = p.board
          /\ oracle = [stage |-> "called", winner |-> w, stm |-> p.stm, moves |-> p.moves, checkers |-> p.checkers, value |-> FALSE]
    /\ variables = {}
    /\ satPc = "idle"
    /\ satK = 0
    /\ change = FALSE
    /\ passes = NoPasses
    /\ ndCall = NoDepthCall

\* semistatic.cpp:392-394
OracleTerminal ==
    /\ oracle.stage = "called"
    /\ oracle.moves = "none"
    /\ oracle' = [oracle EXCEPT !.stage = "returned", !.value = Terminal(board, oracle)]
    /\ UNCHANGED <<satVars, ndCall>>

\* semistatic.cpp:396-399
OracleEnPassant ==
    /\ oracle.stage = "called"
    /\ oracle.moves = "ep"
    /\ oracle' = [oracle EXCEPT !.stage = "returned", !.value = FALSE]
    /\ UNCHANGED <<satVars, ndCall>>

\* semistatic.cpp:401
OracleSaturate ==
    /\ oracle.stage = "called"
    /\ oracle.moves = "some"
    /\ satPc = "idle"
    /\ SaturateBegin
    /\ UNCHANGED fnVars

\* semistatic.cpp:402
OracleSystem ==
    /\ oracle.stage = "called"
    /\ satPc = "done"
    /\ oracle' = [oracle EXCEPT !.stage = "returned", !.value = System_is_unwinnable(variables, board, oracle.winner)]
    /\ UNCHANGED <<satVars, ndCall>>

SpecUnmoveInit == FnIdle /\ UnmoveInit /\ KnightIdle /\ SaturateIdle /\ SearchIdle /\ CliIdle
SpecUnmoveNext ==
    UnmoveCall /\ UNCHANGED <<KnightDistanceTable, kdInited, kdArgs, kdGot,
                            satVars, searchVars, cliVars, fnVars>>
SpecUnmove == SpecUnmoveInit /\ [][SpecUnmoveNext]_vars

SpecKnightInit == FnIdle /\ UnmoveIdle /\ KnightStart /\ SaturateIdle /\ SearchIdle /\ CliIdle
SpecKnightNext ==
    \/ KnightDistanceInit /\ UNCHANGED <<umArgs, presquares, satVars, searchVars,
                                      cliVars, fnVars>>
    \/ KnightDistanceGet /\ UNCHANGED <<umArgs, presquares, satVars, searchVars,
                                      cliVars, fnVars>>
SpecKnight == SpecKnightInit /\ [][SpecKnightNext]_vars

SpecSaturateInit == FnIdle /\ UnmoveIdle /\ KnightIdle /\ SaturateStart /\ SearchIdle /\ CliIdle
SpecSaturateNext ==
    \/ SaturateBegin /\ UNCHANGED <<boardVars, searchVars, cliVars, fnVars>>
    \/ SaturateStep /\ UNCHANGED <<boardVars, searchVars, cliVars, fnVars>>
    \/ SaturatePassEnd /\ UNCHANGED <<boardVars, searchVars, cliVars, fnVars>>
SpecSaturate == SpecSaturateInit /\ [][SpecSaturateNext]_vars

SpecSearchInit == FnIdle /\ UnmoveIdle /\ KnightIdle /\ SaturateIdle /\ SearchStart
                  /\ CliIdle
SpecSearchNext ==
    \/ FullStart /\ UNCHANGED <<boardVars, satVars, cliVars, fnVars>>
    \/ FullTrivialProgress /\ UNCHANGED <<boardVars, satVars, cliVars, fnVars>>
    \/ FullTerminalTests /\ UNCHANGED <<boardVars, satVars, cliVars, fnVars>>
    \/ FullShallowSearch /\ UNCHANGED <<boardVars, satVars, cliVars, fnVars>>
    \/ FullStatic /\ UNCHANGED <<boardVars, satVars, cliVars, fnVars>>
    \/ FullLookahead /\ UNCHANGED <<boardVars, satVars, cliVars, fnVars>>
    \/ FullBranchEnter /\ UNCHANGED <<boardVars, satVars, cliVars, fnVars>>
    \/ IterativeDeepening /\ UNCHANGED <<boardVars, satVars, cliVars, fnVars>>
    \/ FullBranchExit /\ UNCHANGED <<boardVars, satVars, cliVars, fnVars>>
    \/ QuickAnalysis /\ UNCHANGED <<boardVars, satVars, cliVars, fnVars>>
    \/ FindShortestStart /\ UNCHANGED <<boardVars, satVars, cliVars, fnVars>>
    \/ FindShortestIteration /\ UNCHANGED <<boardVars, satVars, cliVars, fnVars>>
SpecSearch == SpecSearchInit /\ [][SpecSearchNext]_vars

SpecParseInit == FnIdle /\ UnmoveIdle /\ KnightIdle /\ SaturateIdle /\ SearchIdle
                 /\ ParseStart
SpecParseNext == ParseLine /\ UNCHANGED <<boardVars, satVars, searchVars, fnVars>>
SpecParse == SpecParseInit /\ [][SpecParseNext]_vars

SpecDeadInit == FnIdle /\ UnmoveIdle /\ KnightIdle /\ SaturateIdle /\ IsDeadStart
SpecDeadNext ==
    \/ IsDeadFirst /\ UNCHANGED <<boardVars, satVars, fnVars>>
    \/ IsDeadSecond /\ UNCHANGED <<boardVars, satVars, fnVars>>
SpecDead == SpecDeadInit /\ [][SpecDeadNext]_vars

SpecDepthInit == UnmoveIdle /\ KnightIdle /\ SaturateIdle /\ SearchIdle /\ CliIdle /\ DepthStart

SpecDepthNext == DepthAdjust /\ UNCHANGED <<boardVars, satVars, searchVars, cliVars>>

SpecDepth == SpecDepthInit /\ [][SpecDepthNext]_vars

SpecOracleInit == UnmoveIdle /\ KnightIdle /\ SearchIdle /\ CliIdle /\ OracleStart

SpecOracleNext ==
    \/ OracleTerminal /\ UNCHANGED <<boardVars, searchVars, cliVars>>
    \/ OracleEnPassant /\ UNCHANGED <<boardVars, searchVars, cliVars>>
    \/ OracleSaturate /\ UNCHANGED <<boardVars, searchVars, cliVars>>
    \/ SaturateStep /\ UNCHANGED <<boardVars, searchVars, cliVars, fnVars>>
    \/ SaturatePassEnd /\ UNCHANGED <<boardVars, searchVars, cliVars, fnVars>>
    \/ OracleSystem /\ UNCHANGED <<boardVars, searchVars, cliVars>>

SpecOracle == SpecOracleInit /\ [][SpecOracleNext]_vars

\* ---- Forced lines: the positions 1..n+1 with the single legal move i -> i+1;
\* the last position either has no legal move (stalemate) or has the single
\* move back to the start of the line.
ForcedPlies == 101
FORCED_MOVES_CAP == 100

ForcedLine(n, closing) ==
    [name |-> "ForcedLine",
     stm |-> [i \in 1..(n + 1) |-> (i - 1) % 2],
     moves |-> [i \in 1..(n + 1) |->
                   IF i <= n THEN <<<<i + 1, "king">>>>
                   ELSE IF closing THEN <<<<IF n % 2 = 1 THEN 1 ELSE 2, "king">>>>
                   ELSE <<>>],
     check |-> {}, kingcap |-> {},
     bare |-> <<{}, {}>>, pawnless |-> <<{}, {}>>,
     nlp |-> <<{}, {}>>, orc |-> <<{}, {}>>,
     KRQ |-> 2, blocked |-> 0, lonely |-> FALSE, knights |-> FALSE,
     semi |-> {}, bishops2 |-> FALSE, roots |-> {1}]

ForcedLines == {ForcedLine(n, closing) : n \in {1, 2, ForcedPlies}, closing \in BOOLEAN}

\* cha.cpp:80, 104-105: an input line whose position starts a forced line.
TrivialStart ==
    /\ game \in ForcedLines
    /\ inputPos \in game.roots
    /\ pos = inputPos
    /\ states = <<>>
    /\ \E intendedWinner \in Colors :
           search = NewSearch(intendedWinner, DefaultLimit)
    /\ TT = TT_clear
    /\ pc = "idle"
    /\ frame = NoFrame
    /\ ret = [full |-> NotRun, quick |-> NotRun, shortest |-> NotRun]

SpecTrivialInit == FnIdle /\ UnmoveIdle /\ KnightIdle /\ SaturateIdle /\ TrivialStart
                   /\ CliIdle
SpecTrivialNext ==
    \/ FullStart /\ UNCHANGED <<boardVars, satVars, cliVars, fnVars>>
    \/ FullTrivialProgress /\ UNCHANGED <<boardVars, satVars, cliVars, fnVars>>
    \/ FullTerminalTests /\ UNCHANGED <<boardVars, satVars, cliVars, fnVars>>
SpecTrivial == SpecTrivialInit /\ [][SpecTrivialNext]_vars

\* ---- One line of recursive calls of find_mate: each step is one turn of
\* the loop over the legal moves (dynamic.cpp:176-262) that enters the
\* recursive call, or a return of the call entered last.
InitDepths == {0, 1, FORCED_MOVES_CAP}

\* dynamic.cpp:335-336, 358-360, 431-432, 505-507, 573-574: Search::set and
\* the first call find_mate(pos, search, 0, false, false).
FindMateStart ==
    /\ \E t \in Targets, md \in 0..MaxDepthArg, initDepth \in InitDepths :
          ndCall = [stage |-> "entered", TARGET |-> t, depth |-> 0, maxSearchDepth |-> md, actualDepth |-> initDepth, variation |-> "NORMAL", pastProgress |-> FALSE, newDepth |-> 0]
    /\ oracle = NoOracle

\* dynamic.cpp:153-157, 176-262: past the test of the limits, a legal move of
\* some variation type: the adjusted depth, annotate_move, step and the
\* recursive call.
FindMateMove ==
    /\ ndCall.stage = "entered"
    /\ ndCall.depth < ndCall.maxSearchDepth
    /\ \E v \in Variations :
          LET s == [maxSearchDepth |-> ndCall.maxSearchDepth, depth |-> ndCall.actualDepth]
              variation == Downgraded(ndCall.TARGET, s, IF ndCall.TARGET = "ANY" THEN v ELSE "NORMAL")
              newDepth == NewDepth(ndCall.TARGET, s, ndCall.depth, variation, ndCall.pastProgress)
          IN  ndCall' = [ndCall EXCEPT !.depth = newDepth, !.actualDepth = step(s).depth, !.variation = variation, !.pastProgress = (variation = "REWARD"), !.newDepth = newDepth]
    /\ UNCHANGED oracle

\* dynamic.cpp:139-157, 265-267: a return of the call (the table, the
\* material, a mate, the limits, or the end of the loop over the moves).
FindMateReturn ==
    /\ ndCall.stage = "entered"
    /\ ndCall' = [ndCall EXCEPT !.stage = "returned"]
    /\ UNCHANGED oracle

SpecDescentInit == UnmoveIdle /\ KnightIdle /\ SaturateIdle /\ SearchIdle /\ CliIdle /\ FindMateStart
SpecDescentNext ==
    \/ FindMateMove /\ UNCHANGED <<boardVars, satVars, searchVars, cliVars>>
    \/ FindMateReturn /\ UNCHANGED <<boardVars, satVars, searchVars, cliVars>>
SpecDescent == SpecDescentInit /\ [][SpecDescentNext]_vars /\ WF_vars(SpecDescentNext)

---------------------------------------------------------------------------
(* C7.  Pre-image completeness.                                            *)

\* The geometry of a one-step move of (p, c) from square a onto square b,
\* stated with files and ranks, not with increments.
OneStep(p, c, a, b) ==
    LET df == file_of(b) - file_of(a)
        dr == rank_of(b) - rank_of(a)
        fwd == IF c = WHITE THEN 1 ELSE -1
    IN  CASE p = KING -> Max2(Abs(df), Abs(dr)) = 1
          [] p = QUEEN -> Max2(Abs(df), Abs(dr)) = 1
          [] p = KNIGHT -> {Abs(df), Abs(dr)} = {1, 2}
          [] p = BISHOP -> Abs(df) = 1 /\ Abs(dr) = 1
          [] p = ROOK -> Abs(df) + Abs(dr) = 1
          [] p = PAWN -> dr = fwd /\ Abs(df) <= 1

PushSource(c, a, b) ==
    file_of(a) = file_of(b) /\ rank_of(b) - rank_of(a) = (IF c = WHITE THEN 1 ELSE -1)

\* C7: after unmove(p, c, t) the valid entries of presquares are exactly the
\* on-board squares from which (p, c) steps onto t (so none reached by
\* wrapping around an edge), they come first and only -1 follows them, and a
\* pawn's entry 0, when present, is its push source.
C7_PreimageComplete ==
    presquares # <<>> =>
        LET p == umArgs.p
            c == umArgs.c
            t == umArgs.s
            valid == {presquares[j] : j \in {k \in 1..8 : presquares[k] >= 0}}
        IN  /\ Len(presquares) = 8
            /\ \A j \in 1..8 : presquares[j] = -1 \/ presquares[j] \in Squares
            /\ valid = {a \in Squares : OneStep(p, c, a, t)}
            /\ \A j \in 1..7 : presquares[j] = -1 => presquares[j + 1] = -1
            /\ \A i \in 1..8, j \in 1..8 :
                  (i < j /\ presquares[i] >= 0) => presquares[i] # presquares[j]
            /\ (p = PAWN /\ presquares[1] >= 0) => PushSource(c, presquares[1], t)
            /\ \A j \in 0..7, s \in {SQ_A1, SQ_H8} :
                  Equation(p, c, s, t, j) =
                     (IF presquares[j + 1] < 0 THEN -1 ELSE index(p, c, s, presquares[j + 1]))

\* A pawn target with all three sources on the board, and a corner target
\* of a knight, whose wrapped candidates must be dropped.
C7_Witness ==
    /\ presquares # <<>>
    /\ umArgs.p = PAWN
    /\ umArgs.c = BLACK
    /\ umArgs.s = 33
    /\ presquares = <<41, 40, 42, -1, -1, -1, -1, -1>>

---------------------------------------------------------------------------
(* C8.  Knight-distance correctness.                                       *)

\* C8: after init, get(x, y) is knight_distance(x, y), is the value stored
\* for (y, x), is 0 exactly when x = y, and is the breadth-first distance
\* between x and y in the knight-move graph.
C8_KnightDistance ==
    LET x == kdArgs[1]
        y == kdArgs[2]
    IN  /\ kdGot # -1 =>
              /\ kdGot = KnightDistanceTable[kdIndex(x, y)]
              /\ kdGot = KnightDistanceTable[kdIndex(y, x)]
              /\ (kdGot = 0) <=> (x = y)
              /\ kdGot = KnightBfs[x][y]
        /\ (kdInited /\ kdGot = -1) =>
              \A a \in Squares, b \in Squares :
                  KnightDistanceTable[kdIndex(a, b)] = knight_distance(a, b)

\* The exceptional case: from the corner a8 to its diagonal neighbour b7.
C8_Witness ==
    /\ kdInited
    /\ kdArgs = <<56, 49>>
    /\ kdGot = 4

---------------------------------------------------------------------------
(* C6.  Monotonicity of the saturation.                                    *)

\* C6: during one saturate call (from the end of its initialisation to its
\* return) every step keeps all the variables that are true: no Move, Clear,
\* Reach or Capture variable goes from true back to false.
C6_SaturateMonotone ==
    [][satPc = "loop" => variables \subseteq variables']_vars

\* A pass has set a Move variable that the initialisation had left false, in
\* a position whose saturation needs more than one pass.
C6_Witness ==
    /\ satPc = "done"
    /\ type_of(board[28]) = PAWN
    /\ type_of(board[35]) = PAWN
    /\ index(PAWN, WHITE, 28, 35) \in variables
    /\ index(PAWN, WHITE, 28, 36) \in variables
    /\ index(PAWN, WHITE, 28, 28) \in variables

---------------------------------------------------------------------------
(* The verdicts of the analyses.                                           *)

\* The input position is legal: the side to move cannot capture the king.
Legal == inputPos \notin game.kingcap

FlagRank(flag) ==
    CASE flag = "PRE_STATIC" -> 0
      [] flag = "STATIC" -> 1
      [] flag = "POST_STATIC" -> 2

InFullAnalysis ==
    pc \in {"trivial", "shallow", "static", "lookahead", "branch", "deepen",
            "branch exit"}

C2_SequenceIsLegalMate ==
    ret.full.done /\ Legal /\ ret.full.result = "WINNABLE"
        => IsLegalMate(ret.full.checkmateSequence, ret.full.mateLen,
                       inputPos, search.winner)

\* C3: in a run of full_analysis the flag starts at PRE_STATIC and only
\* advances PRE_STATIC -> STATIC -> POST_STATIC; the result returned is
\* Winnable, Unwinnable or Undetermined, and Undetermined is returned only
\* with the flag at POST_STATIC.
C3_FlagAdvances ==
    /\ [][/\ pc = "idle" /\ pc' = "trivial" => search'.flag = "PRE_STATIC"
          /\ InFullAnalysis =>
                 FlagRank(search'.flag) - FlagRank(search.flag) \in {0, 1}]_vars
    /\ [](ret.full.done =>
            /\ ret.full.result \in {"WINNABLE", "UNWINNABLE", "UNDETERMINED"}
            /\ ret.full.result = "UNDETERMINED"
                   => ret.full.flag = "POST_STATIC")

\* Undetermined returned, with the flag at POST_STATIC.
C3_Witness ==
    /\ ret.full.done
    /\ ret.full.result = "UNDETERMINED"
    /\ ret.full.flag = "POST_STATIC"

\* C4: on a legal position on which SemiStatic::is_unwinnable is true,
\* full_analysis returns Unwinnable.
C4_OracleDecidesFull ==
    /\ ret.full.done /\ Legal
    /\ SemiStatic_is_unwinnable(inputPos, search.winner)
    => ret.full.result = "UNWINNABLE"

C9_ShortestIsMinimal ==
    ret.shortest.done /\ Legal /\ ret.shortest.result = "WINNABLE"
        => /\ ret.shortest.mateLen > 0
                  => inputPos \notin MateWithin(search.winner,
                                                ret.shortest.mateLen - 1)
           /\ ret.full.done /\ ret.full.result = "WINNABLE"
                  => ret.full.mateLen >= ret.shortest.mateLen

\* C10: on a legal position where the intended winner has only the king,
\* impossible_to_win is true and full_analysis and quick_analysis both
\* return Unwinnable.
C10_BareKingUnwinnable ==
    Legal /\ popcount_pieces(inputPos, search.winner) = 1
        => /\ impossible_to_win(inputPos, search.winner)
           /\ ret.full.done => ret.full.result = "UNWINNABLE"
           /\ ret.quick.done => ret.quick.result = "UNWINNABLE"

\* Both analyses have run on a bare-king position with several legal moves:
\* full_analysis returned at the material test.
C10_Witness ==
    /\ Legal /\ popcount_pieces(inputPos, search.winner) = 1
    /\ ret.full.done /\ ret.full.stage = "material"
    /\ ret.quick.done /\ ret.quick.result = "UNWINNABLE"

\* C11 as stated: on king and two knights against the bare king, with
\* White the intended winner, the material test applies and full_analysis
\* returns Unwinnable.
C11_TwoKnightsUnwinnable ==
    /\ game.name = "TwoKnights" /\ search.winner = WHITE
    /\ ret.full.done
    => /\ ImpossibleToWin(KNNvK, WHITE)
       /\ ret.full.result = "UNWINNABLE"

\* C11: on king and two knights against the bare king, with White the
\* intended winner, need_loser_promotion and impossible_to_win are false,
\* full_analysis passes the material test and never returns Unwinnable; the
\* material test applies once a knight is lost (king and knight against the
\* bare king).
C11_TwoKnightsNotUnwinnable ==
    game.name = "TwoKnights" /\ search.winner = WHITE
        => /\ ~NeedLoserPromotion(KNNvK, WHITE)
           /\ ~ImpossibleToWin(KNNvK, WHITE)
           /\ ImpossibleToWin(KNvK, WHITE)
           /\ ~impossible_to_win(inputPos, WHITE)
           /\ ret.full.done =>
                  /\ ret.full.result \in {"WINNABLE", "UNDETERMINED"}
                  /\ ret.full.stage # "material"

\* full_analysis has returned Winnable on the two knights.
C11_Witness ==
    /\ game.name = "TwoKnights" /\ search.winner = WHITE
    /\ ret.full.done
    /\ ret.full.result = "WINNABLE"
    /\ HasHelpmate(inputPos, WHITE)

---------------------------------------------------------------------------
(* C12.  parse_line.                                                       *)

\* The tokens of a line, by their places: a token starts at a character that
\* is not a space and follows a space or the start of the line.
TokenStarts(stream) ==
    {i \in 1..Len(stream) :
        stream[i] # " " /\ (i = 1 \/ stream[i - 1] = " ")}

TokenAt(stream, i) ==
    LET ends == {j \in i..Len(stream) :
                    j = Len(stream) \/ stream[j + 1] = " "}
        last == CHOOSE j \in ends : \A k \in ends : j <= k
    IN  SubSeq(stream, i, last)

Tokens(stream) == [k \in 1..Cardinality(TokenStarts(stream)) |->
                      TokenAt(stream, SortedSeq(TokenStarts(stream))[k])]

WinnerTokens == {<<"white">>, <<"black">>}

\* C12: parse_line returns White if the first token "white" or "black" of
\* the line is "white", Black if it is "black", and the colour opposite to
\* the side to move of the position when the line has neither; the FEN
\* handed to the position is made of exactly the tokens before that token.
C12_ParseLine ==
    parsed.done =>
        LET tokens == Tokens(inputLine)
            named == {k \in 1..Len(tokens) : tokens[k] \in WinnerTokens}
            first == IF named = {} THEN Len(tokens) + 1
                     ELSE CHOOSE k \in named : \A j \in named : k <= j
        IN  /\ Tokens(parsed.fen) = SubSeq(tokens, 1, first - 1)
            /\ named # {} /\ tokens[first] = <<"white">>
                   => parsed.winner = WHITE
            /\ named # {} /\ tokens[first] = <<"black">>
                   => parsed.winner = BLACK
            /\ named = {} => parsed.winner = Opp(parsed.sideToMove)

\* A FEN with White to move followed by no winner: Black is returned.
C12_Witness ==
    /\ parsed.done
    /\ inputLine = <<"8", " ", "w">>
    /\ parsed.fen = <<"8", " ", "w", " ">>
    /\ parsed.sideToMove = WHITE
    /\ parsed.winner = BLACK

---------------------------------------------------------------------------
---------------------------------------------------------------------------
(* C14.  The transposition table at the start of a find_mate<FULL> pass.   *)

\* A pass of iterative_deepening or of find_shortest is about to start.
PassStart == pc \in {"deepen", "shortest"}

\* The pass about to start is the first one since the table was cleared:
\* the first value of maxDepth in the first branch or in the search from
\* the position itself, the first depth of find_shortest.
FirstPass ==
    \/ /\ pc = "deepen" /\ frame.maxDepth = 2
       /\ frame.inBranch => frame.i = 1
    \/ /\ pc = "shortest"
       /\ frame.depth = IF side_to_move(inputPos) = search.winner
                        THEN 1 ELSE 0

---------------------------------------------------------------------------
(* C15.  Pruning by the transposition table and the verdict of a pass.     *)

\* The positions from which a checkmate by W is reachable in at most k legal
\* moves without passing through a position that is material-impossible
\* for W.
RECURSIVE MateAvoiding(_, _)
MateAvoiding(W, k) ==
    IF k = 0
    THEN {p \in Nodes : IsMate(p, W)}
    ELSE LET near == MateAvoiding(W, k - 1)
         IN  near \cup {p \in Nodes :
                          /\ ~impossible_to_win(p, W)
                          /\ \E i \in 1..Len(MoveList(p)) :
                                 to_sq(MoveList(p)[i]) \in near}

---------------------------------------------------------------------------
(* C16.  Termination of the saturation.                                    *)

\* C16: a pass that has set 'change' has made true a variable that was false
\* when the pass started; the number of passes is at most one more than the
\* number of variables made true since the initialisation, hence than the
\* number of variables; and every step of the loop moves on to the next
\* occupied square, to the next pass or to the return, so that every call of
\* saturate returns.
C16_SaturateTerminates ==
    /\ [](satPc = "loop" /\ change =>
              passes.from \subseteq variables /\ passes.from # variables)
    /\ [](satPc = "loop" =>
              /\ passes.n <= Cardinality(variables
                                            \ SaturateInitVars(board)) + 1
              /\ passes.n <= N_VARS + 1)
    /\ [][satPc = "loop" =>
              \/ satPc' = "done" /\ ~change
              \/ passes'.n = passes.n + 1 /\ change
              \/ /\ passes'.n = passes.n /\ satK' = satK + 1
                 /\ satK' <= Cardinality(Occupied(board))]_vars

\* saturate has returned after more than two passes.
C16_Witness ==
    /\ satPc = "done"
    /\ passes.n > 2
    /\ Cardinality(passes.from \ SaturateInitVars(board)) >= passes.n - 1

---------------------------------------------------------------------------
(* C17.  The result of the saturation.                                     *)

\* One pass of the loop over the occupied squares, taken in the given order.
RECURSIVE SaturatePass(_, _, _)
SaturatePass(V, b, order) ==
    IF order = <<>>
    THEN V
    ELSE LET r == SaturatePiece(V, FALSE, b, Head(order))
         IN  IF r[1] = V
             THEN SaturatePass(V, b, Tail(order))
             ELSE SaturatePass(r[1], b, Tail(order))

\* Passes in the given order until one of them changes nothing.
RECURSIVE SaturateInOrder(_, _, _)
SaturateInOrder(V, b, order) ==
    LET W == SaturatePass(V, b, order)
    IN  IF W = V THEN V ELSE SaturateInOrder(W, b, order)

\* Rounds in which the rules of every occupied square are applied to the
\* assignment of the round before, until a round changes nothing.
RECURSIVE SaturateInRounds(_, _)
SaturateInRounds(V, b) ==
    LET W == UNION {SaturatePiece(V, FALSE, b, source)[1] :
                       source \in Occupied(b)}
    IN  IF W = V THEN V ELSE SaturateInRounds(W, b)

ReverseSeq(order) == [i \in 1..Len(order) |-> order[Len(order) + 1 - i]]

---------------------------------------------------------------------------
(* C18.  do_move and undo_move.                                            *)

\* C18: the routines that play moves to explore give the position back as
\* they were given it: after quick_analysis the position is the one its
\* exploring routines (dynamically_unwinnable, is_unwinnable_after_one_move)
\* were called with, and between the steps of full_analysis and of
\* find_shortest (after find_mate, the one-ply lookahead and each branch)
\* it is the last position played to.
C18_MovesAreUndone ==
    /\ ret.quick.done =>
           pos = IF ret.quick.stable THEN inputPos
                 ELSE UTIL_trivial_progress(inputPos, 100)
    /\ pc \in {"static", "lookahead", "branch", "deepen", "branch exit"} =>
           pos = states[Len(states)]
    /\ pc = "shortest" => pos = inputPos

---------------------------------------------------------------------------
(* C19.  step and undo_step.                                               *)

\* C19: the ply depth of the Search object after a call of find_mate (the
\* shallow search, a pass of iterative_deepening or of find_shortest) and
\* after the calls of dynamically_unwinnable in quick_analysis is the depth
\* the search was set to before the call.
C19_StepsAreUndone ==
    [][/\ pc = "deepen" => search'.depth = search.depth
       /\ pc \in {"shallow", "shortest"} => search'.depth = 0
       /\ (~ret.quick.done /\ ret'.quick.done) => search'.depth = 0]_vars

---------------------------------------------------------------------------
(* C20.  The checkmate test and the search limits.                         *)

\* C20: whatever the Search object and the table hold (the depth limit
\* reached, the node counter beyond the local limit), find_mate called on a
\* position where the Loser is to move, in check and without a legal move
\* sets the result Winnable with the current depth as the length, returns
\* true, and leaves the interrupted flag and the table as they were.
C20_MateBeforeBudget ==
    \A p \in Nodes :
        IsMate(p, search.winner) =>
            \A MODE \in {"FULL", "QUICK"}, TARGET \in {"ANY", "SHORTEST"},
               depth \in {0, search.maxSearchDepth} :
                LET r == find_mate(MODE, TARGET,
                                   [search |-> search, TT |-> TT,
                                    mate |-> FALSE],
                                   p, depth, FALSE, FALSE)
                IN  /\ r.mate
                    /\ r.search.result = "WINNABLE"
                    /\ r.search.mateLen = search.depth
                    /\ r.search.interrupted = search.interrupted
                    /\ r.TT = TT

\* find_shortest has returned a mate whose last node was reached with no
\* depth left (depth = max_depth), and the node counter of the Search object
\* is beyond its local limit.
C20_Witness ==
    /\ ret.shortest.done
    /\ ret.shortest.result = "WINNABLE"
    /\ ret.shortest.mateLen > 0
    /\ ret.shortest.mateLen = frame.depth
    /\ pc = "idle"
    /\ search.result = "WINNABLE"
    /\ is_local_limit_reached(search)

\* C21 as stated: with target Any and at most RewardPlies real plies the
\* recursive call gets depth - 1 after a REWARD move, min(max_depth, depth + 2)
\* after a PUNISH move, depth - 1 after a NORMAL move whose caller made
\* progress and depth + 1 otherwise; with target Shortest it gets depth + 1.
DepthCase == ndCall.stage = "adjusted" /\ (ndCall.TARGET = "ANY" => ndCall.actualDepth <= RewardPlies)

C21_DepthAsStated ==
    DepthCase =>
        ndCall.newDepth =
            IF ndCall.TARGET = "SHORTEST" THEN ndCall.depth + 1
            ELSE CASE ndCall.variation = "REWARD" -> ndCall.depth - 1
                   [] ndCall.variation = "PUNISH" -> Min2(ndCall.maxSearchDepth, ndCall.depth + 2)
                   [] OTHER -> IF ndCall.pastProgress THEN ndCall.depth - 1 ELSE ndCall.depth + 1

\* C21 amended: the adjustment starts from depth + 1, so the recursive call
\* gets depth after a REWARD move, min(max_depth, depth + 3) after a PUNISH
\* move, depth after a NORMAL move whose caller made progress and depth + 1
\* otherwise; with target Shortest it gets depth + 1.
C21_DepthAdjustment ==
    DepthCase =>
        /\ ndCall.TARGET = "SHORTEST" => ndCall.newDepth = ndCall.depth + 1
        /\ ndCall.TARGET = "ANY" /\ ndCall.variation = "REWARD" => ndCall.newDepth = ndCall.depth
        /\ ndCall.TARGET = "ANY" /\ ndCall.variation = "PUNISH" =>
              /\ ndCall.newDepth <= ndCall.maxSearchDepth
              /\ ndCall.newDepth <= ndCall.depth + 3
              /\ ndCall.newDepth \in {ndCall.maxSearchDepth, ndCall.depth + 3}
        /\ ndCall.TARGET = "ANY" /\ ndCall.variation = "NORMAL" =>
              ndCall.newDepth = ndCall.depth + (IF ndCall.pastProgress THEN 0 ELSE 1)

C21_Witness ==
    /\ DepthCase
    /\ ndCall.TARGET = "ANY"
    /\ ndCall.variation = "PUNISH"
    /\ ndCall.depth + 3 < ndCall.maxSearchDepth
    /\ ndCall.newDepth = ndCall.depth + 3

\* C22: once the node expansions of the analysis, those of the iteration
\* just finished included (the value reported as nodes), exceed the global
\* limit, iterative_deepening starts no further iteration.
C22_GlobalBudget ==
    (pc = "deepen" /\ frame.maxDepth > 2) => get_nb_nodes(search) <= search.globalLimit

\* The pawns of colour c on a file that holds no pawn of the other colour.
LonelyPawnsOf(b, c) ==
    {s \in pieces(b, c) \cap pieces_of(b, {PAWN}) :
        \A t \in pieces(b, Opp(c)) \cap pieces_of(b, {PAWN}) : file_of(t) # file_of(s)}

OneStepFromPromotion(s, c) == rank_of(s) = IF c = WHITE THEN 6 ELSE 1

C25_VisitorVerdicts ==
    (oracle.stage = "returned" /\ oracle.moves = "some") =>
        LET V == Visitors(variables, board, oracle.winner)
        IN  /\ (V = {} /\ ~HasLonelyPawns(board)) => oracle.value
            /\ (V \cap DarkSquares # {} /\ V \ DarkSquares # {}) => ~oracle.value
            /\ (\E s \in V : type_of(board[s]) # BISHOP) => ~oracle.value
            /\ (oracle.value /\ V # {}) =>
                  /\ \A s \in V : type_of(board[s]) = BISHOP
                  /\ V \subseteq DarkSquares \/ V \cap DarkSquares = {}

C25_Witness ==
    /\ oracle.stage = "returned"
    /\ oracle.moves = "some"
    /\ oracle.value
    /\ Visitors(variables, board, oracle.winner) # {}

\* The pairs <<source, t>> of a pawn and an opposing pawn ahead of it on its file.
ConfrontingPairs ==
    {q \in Squares \X Squares :
        /\ type_of(board[q[1]]) = PAWN /\ type_of(board[q[2]]) = PAWN
        /\ color_of(board[q[1]]) # color_of(board[q[2]])
        /\ file_of(q[1]) = file_of(q[2])
        /\ IF color_of(board[q[1]]) = WHITE THEN q[1] < q[2] ELSE q[1] > q[2]}

\* One of the two pawns has a Move variable off the file, or a square after
\* source up to t has Capture(c, .).
Released(V, q) ==
    LET c == color_of(board[q[1]])
    IN  \/ \E aux \in Squares :
              /\ file_of(aux) # file_of(q[1])
              /\ index(PAWN, c, q[1], aux) \in V \/ index(PAWN, Opp(c), q[2], aux) \in V
        \/ \E aux \in Squares :
              /\ file_of(aux) = file_of(q[1])
              /\ Min2(q[1], q[2]) <= aux /\ aux <= Max2(q[1], q[2]) /\ aux # q[1]
              /\ capture_index(c, aux) \in V

SquareBefore(q) == IF color_of(board[q[1]]) = WHITE THEN q[2] - 8 ELSE q[2] + 8

\* C26: the push of the pawn on source onto a square t that holds an opposing
\* pawn of its file is not propagated while neither pawn has a Move variable
\* off the file and no square after source up to t has Capture(c, .); once
\* one of the two holds, and Clear(~c, t), the pawn's next turn propagates it.
C26_ConfrontingPawns ==
    /\ [](\A q \in ConfrontingPairs :
            index(PAWN, color_of(board[q[1]]), q[1], q[2]) \in variables => Released(variables, q))
    /\ [][(satPc = "loop" /\ satK' = satK + 1) =>
            \A q \in ConfrontingPairs :
                (/\ q[1] = SortedSeq(Occupied(board))[satK + 1]
                 /\ Released(variables, q)
                 /\ clear_index(Opp(color_of(board[q[1]])), q[2]) \in variables
                 /\ index(PAWN, color_of(board[q[1]]), q[1], SquareBefore(q)) \in variables)
                  => index(PAWN, color_of(board[q[1]]), q[1], q[2]) \in variables']_vars

\* A push that a pass refused and a later pass propagated.
C26_Witness ==
    /\ passes.n >= 2
    /\ \E q \in ConfrontingPairs :
          /\ SquareBefore(q) = q[1]
          /\ index(PAWN, color_of(board[q[1]]), q[1], q[2]) \in variables
          /\ index(PAWN, color_of(board[q[1]]), q[1], q[2]) \notin passes.from
          /\ \A aux \in Squares : file_of(aux) # file_of(q[1]) => index(PAWN, color_of(board[q[1]]), q[1], aux) \notin variables

\* ---- C27 (SpecTrivial).
\* The forced moves full_analysis has played: one position is appended to
\* states per forced move (dynamic.cpp:539-544).
ForcedMovesPlayed == IF states = <<>> THEN 0 ELSE Len(states) - 1

InBranchLoop == pc \in {"branch", "branch exit"} \/ (pc = "deepen" /\ frame.inBranch)
\* The position whose moves the loop goes through.
BranchRoot == IF pc = "branch" THEN pos ELSE states[Len(states) - 1]

\* C28: in the PostStatic phase of full_analysis with some moves pruned by
\* the lookahead, Winnable is returned as soon as the iterative deepening of a
\* surviving move finds a mate, with that move recorded in the sequence;
\* Unwinnable is returned only if the iterative deepening of every surviving
\* move returned Unwinnable; when the loop stops on the global limit before
\* that, the result is not Unwinnable.
C28_BranchLoop ==
    /\ [](InBranchLoop =>
            /\ Len(frame.undefinedBranches) \in 1..(Len(MoveList(BranchRoot)) - 1)
            /\ frame.unwinnableCount = frame.i - 1
            /\ frame.i <= Len(frame.undefinedBranches)
            /\ (pc = "branch" => search.result = "UNDETERMINED"))
    /\ [][pc = "branch exit" =>
            LET n == Len(frame.undefinedBranches)
                m == frame.undefinedBranches[frame.i]
            IN  /\ frame'.i = frame.i + 1
                /\ frame'.unwinnableCount = frame.unwinnableCount +
                       (IF search.result = "UNWINNABLE" THEN 1 ELSE 0)
                /\ search.result = "WINNABLE" =>
                       /\ ret'.full.done
                       /\ ret'.full.result = "WINNABLE"
                       /\ ret'.full.checkmateSequence[0] = <<pos', to_sq(m)>>
                /\ (ret'.full.done /\ ret'.full.result = "UNWINNABLE") =>
                       /\ search.result = "UNWINNABLE"
                       /\ frame.i = n
                       /\ frame'.unwinnableCount = n
                /\ (is_limit_reached(search) /\ frame'.unwinnableCount < n) =>
                       /\ ret'.full.done
                       /\ ret'.full.result # "UNWINNABLE"
                /\ (search.result = "UNWINNABLE" /\ frame.i < n
                    /\ ~is_limit_reached(search)) =>
                       /\ pc' = "branch"
                       /\ ~ret'.full.done]_vars

C28_Witness ==
    /\ ret.full.done
    /\ ret.full.stage = "branches"
    /\ ret.full.result = "UNWINNABLE"
    /\ Len(frame.undefinedBranches) >= 2
    /\ frame.unwinnableCount = Len(frame.undefinedBranches)

\* ---- C29 (SpecDescent).
\* A recursive call of find_mate made from a call at real ply depth
\* actual_depth.
RecursiveCall == ndCall.stage = "entered" /\ ndCall'.stage = "entered" /\ ndCall' # ndCall

\* C29 as stated: beyond 400 real plies every recursive call of find_mate
\* strictly increases depth.
C29_IncreasesBeyond400 ==
    [][(RecursiveCall /\ ndCall.actualDepth > RewardPlies) => ndCall'.depth > ndCall.depth]_vars

\* C29: every line of recursive calls of find_mate ends; at every call
\* 0 <= depth <= max_depth; a recursive call made beyond RewardPlies + 1 real
\* plies strictly increases depth, and the one made at RewardPlies + 1 real
\* plies never decreases it, so that beyond RewardPlies + 1 real plies
\* actual_depth <= RewardPlies + 2 + depth <= RewardPlies + 2 + max_depth;
\* actual_depth stays below MAX_VARIATION_LENGTH and annotate_move records
\* every move.
C29_FindMateDepth ==
    /\ [](ndCall.stage # "idle" =>
            /\ 0 <= ndCall.depth
            /\ ndCall.depth <= ndCall.maxSearchDepth
            /\ ndCall.actualDepth > RewardPlies + 1 =>
                   ndCall.actualDepth <= RewardPlies + 2 + ndCall.depth
            /\ ndCall.actualDepth < MAX_VARIATION_LENGTH
            /\ annotate_move([depth |-> ndCall.actualDepth, checkmateSequence |-> <<>>], <<1, 2>>).checkmateSequence[ndCall.actualDepth] = <<1, 2>>)
    /\ [][RecursiveCall =>
            /\ ndCall'.actualDepth = ndCall.actualDepth + 1
            /\ ndCall.actualDepth > RewardPlies + 1 => ndCall'.depth > ndCall.depth
            /\ ndCall.actualDepth > RewardPlies => ndCall'.depth >= ndCall.depth]_vars
    /\ <>(ndCall.stage = "returned")

C29_Witness ==
    /\ ndCall.stage = "returned"
    /\ ndCall.TARGET = "ANY"
    /\ ndCall.maxSearchDepth = MaxDepthArg
    /\ ndCall.depth = ndCall.maxSearchDepth
    /\ ndCall.actualDepth = RewardPlies + 2 + ndCall.maxSearchDepth

\* ---- C30 (SpecSearch).
\* C30: if SemiStatic::is_unwinnable(P, W) is true, find_shortest returns
\* Unwinnable: the result set by the pre-check is not overwritten by the
\* search that follows.
C30_PreCheckEffective ==
    (ret.shortest.done /\ SemiStatic_is_unwinnable(inputPos, search.winner)) =>
        ret.shortest.result = "UNWINNABLE"

\* ---- C23 (SpecOracle).
\* The loop over the candidate squares of System::is_unwinnable is reached:
\* no lonely pawns, and the winner's visitors are bishops of one square colour.
LoopReached ==
    LET V == Visitors(variables, board, oracle.winner)
    IN  /\ ~HasLonelyPawns(board)
        /\ V # {}
        /\ \A s \in V : type_of(board[s]) = BISHOP
        /\ V \subseteq DarkSquares \/ V \cap DarkSquares = {}

LoserKingRegion == king_region(variables, board, Opp(oracle.winner))

\* s is a square of the loser's king region that a bishop of the winner
\* can reach.
MatingSquare(s) ==
    /\ s \in LoserKingRegion
    /\ visitors(variables, board, {s}, oracle.winner) \ pieces_of(board, {KING}) # {}

\* The squares of the loser's king region next to s of the other colour.
EscapingSquares(s) ==
    {t \in LoserKingRegion : distance(s, t) = 1 /\ (t \in DarkSquares) # (s \in DarkSquares)}

\* The loser's non-king pieces that can reach a square of the set S.
LoserBlockers(S) == visitors(variables, board, S, Opp(oracle.winner)) \ pieces_of(board, {KING})

UnblockableAt(s) == \E e \in EscapingSquares(s) : LoserBlockers({e}) = {}

WinnersKingActive(s) ==
    visitors(variables, board, neighbours(s), oracle.winner) \cap pieces_of(board, {KING}) # {}

EnoughBlockers(s) ==
    Cardinality(EscapingSquares(s)) <=
        (IF WinnersKingActive(s) THEN 1 ELSE 0) + Cardinality(LoserBlockers(EscapingSquares(s)))

\* C23 as stated: a candidate square with an escaping square that no
\* non-king piece of the loser can reach is skipped whether or not the
\* winner's king is active: when every candidate square is unblockable the
\* oracle returns unwinnable.
C23_UnblockableSkipped ==
    (/\ oracle.stage = "returned" /\ oracle.moves = "some" /\ LoopReached
     /\ \A s \in Squares : MatingSquare(s) => UnblockableAt(s)) =>
        oracle.value

\* C23: a candidate square s with an escaping square that no non-king piece
\* of the loser can reach is skipped only when the winner's king is not
\* active near s: the oracle returns not-unwinnable only at a square that
\* is blockable or has the winner's king active, and it does return
\* not-unwinnable at a square with the king active and enough blockers
\* (the king counted as one), unblockable or not.
C23_UnblockableAndKing ==
    (oracle.stage = "returned" /\ oracle.moves = "some" /\ LoopReached) =>
        /\ ~oracle.value =>
              \E s \in Squares :
                 /\ MatingSquare(s)
                 /\ UnblockableAt(s) => WinnersKingActive(s)
                 /\ EnoughBlockers(s)
        /\ \A s \in Squares :
              (MatingSquare(s) /\ WinnersKingActive(s) /\ EnoughBlockers(s)) =>
                  ~oracle.value

C23_Witness ==
    /\ oracle.stage = "returned"
    /\ oracle.moves = "some"
    /\ LoopReached
    /\ ~oracle.value
    /\ \E s \in Squares :
          /\ MatingSquare(s)
          /\ UnblockableAt(s)
          /\ WinnersKingActive(s)
          /\ EnoughBlockers(s)

====
